---- MODULE Spec2Model ----
(***************************************************************************)
(* MOCO MySQLCluster reconciler (controllers/mysqlcluster_controller.go).  *)
(*                                                                         *)
(* The API server is a map from object ids to objects.  An id is a         *)
(* sequence <<kind, namespace, name tokens...>>; a name is kept as a       *)
(* sequence of tokens so that prefix tests on names are real prefix tests. *)
(* One Reconcile is a run of actions: Reconcile (fetch and dispatch), then *)
(* either Finalize or the eleven steps of reconcileV1 in their order, then *)
(* the status write, then Return.  Where faults are injected every API     *)
(* call of a step can fail; the call that fails is an input of the step's  *)
(* action.  Events of the environment (the user, cert-manager, the restore *)
(* Job, the garbage collector) happen between two runs.                    *)
(***************************************************************************)
EXTENDS Integers, Sequences, FiniteSets, TLC

VARIABLES
    objs,       \* the API server: id -> object, for the objects that exist
    cluster,    \* Reconcile's copy of the MySQLCluster (its local variable)
    pc,         \* "idle", or the step of reconcileV1 that runs next
    reconciler, \* the reconciler version Reconcile dispatched to (0: none)
    mycnf,      \* the name of the ConfigMap returned by reconcileV1MyCnf
    calls,      \* the writes and ClusterManager calls issued in the current run
    steps,      \* the steps entered in the current run, in order
    result,     \* "none", or what the run has returned: "ok" or "error"
    errStep,    \* the step whose error the run has returned ("" if none)
    entry,      \* the MySQLCluster as fetched at the start of the run
    quiet,      \* the last run succeeded and nothing has changed since
    wasQuiet,   \* quiet, as it was when the current run started
    envOps,     \* number of events of the environment so far
    operator,   \* the operator's configuration: the images it was started with
    faults,     \* whether API calls may fail with transient errors
    entryObjs,  \* the objects as they were when the run started
    dirty,      \* the work queue: the request keys waiting for a worker
    running,    \* request key -> the number of Reconcile calls running for it
    deleted     \* the object somebody deleted after a successful run, and the
                \* objects and the configuration as they were before

vars == <<objs, cluster, pc, reconciler, mycnf, calls, steps, result, errStep,
          entry, quiet, wasQuiet, envOps, operator, faults, entryObjs, dirty, running, deleted>>

-----------------------------------------------------------------------------
(* Bounds of the model *)

MaxGeneration == 2
MaxEnvOps == 1
NumSeeds == 2

-----------------------------------------------------------------------------
(* Sequences and maps *)

Last(s) == s[Len(s)]

IsPrefix(p, s) == Len(p) <= Len(s) /\ SubSeq(s, 1, Len(p)) = p

Range(s) == {s[i] : i \in DOMAIN s}

EmptyMap == [k \in {} |-> ""]

MapPut(m, id, v) == [k \in DOMAIN m \cup {id} |-> IF k = id THEN v ELSE m[k]]

MapDel(m, id) == [k \in DOMAIN m \ {id} |-> m[k]]

\* A merge in which the first map keeps its values.
mergeMapKeepingFirst(m1, m2) ==
    [k \in DOMAIN m1 \cup DOMAIN m2 |-> IF k \in DOMAIN m1 THEN m1[k] ELSE m2[k]]

mergeMap(m1, m2) ==
    [k \in DOMAIN m1 \cup DOMAIN m2 |-> IF k \in DOMAIN m2 THEN m2[k] ELSE m1[k]]

-----------------------------------------------------------------------------
(* Names *)

SystemNamespace == "moco-system"

ControllerSecretName(c) == <<c.namespace, ".">> \o c.name
PrefixedName(c) == <<"moco-">> \o c.name
UserSecretName(c) == <<"moco-">> \o c.name
MyCnfSecretName(c) == <<"moco-my-cnf-">> \o c.name
GRPCSecretName(c) == <<"moco-grpc-">> \o c.name
CertificateName(c) == <<"moco-agent-", c.namespace, ".">> \o c.name
SlowQueryLogAgentConfigMapName(c) == <<"moco-slow-log-agent-config-">> \o c.name
HeadlessServiceName(c) == <<"moco-">> \o c.name
PrimaryServiceName(c) == <<"moco-">> \o c.name \o <<"-primary">>
ReplicaServiceName(c) == <<"moco-">> \o c.name \o <<"-replica">>
BackupCronJobName(c) == <<"moco-backup-">> \o c.name
BackupRoleName(c) == <<"moco-backup-">> \o c.name
RestoreJobName(c) == <<"moco-restore-">> \o c.name
RestoreRoleName(c) == <<"moco-restore-">> \o c.name

Id(kind, ns, name) == <<kind, ns>> \o name
KindOf(id) == id[1]
NamespaceOf(id) == id[2]
NameOf(id) == SubSeq(id, 3, Len(id))

ClusterId(c) == Id("MySQLCluster", c.namespace, c.name)

labelSet(c, controller) ==
    LET labels == [k \in {"LabelAppName", "LabelAppInstance", "LabelAppCreatedBy"} |->
                     CASE k = "LabelAppName" -> <<"mysql">>
                       [] k = "LabelAppInstance" -> c.name
                       [] OTHER -> <<"moco">>]
    IN IF controller
       THEN MapPut(labels, "LabelAppNamespace", <<c.namespace>>)
       ELSE labels

labelSetForJob(c) ==
    [k \in {"LabelAppName", "LabelAppInstance", "LabelAppCreatedBy"} |->
        CASE k = "LabelAppName" -> <<"mysql-backup">>
          [] k = "LabelAppInstance" -> c.name
          [] OTHER -> <<"moco">>]

-----------------------------------------------------------------------------
(* The API client.  A step threads a record st through its calls:          *)
(*   objs  the API server as the step sees and changes it                  *)
(*   calls the writes issued so far; n the number of calls, reads included *)
(*   f     the number of the call that fails with a transient error (0:    *)
(*         none); err: a call or a check has failed, the step returns it   *)
(*   ret   the value the step returns beside its error                     *)
(* Every call is a no-op once err is set: the code returns at the first    *)
(* error.                                                                  *)
(* A call evaluates the record it is given once (Do), however often it     *)
(* reads it.                                                               *)

St0(o, f, step) == [objs |-> o, calls |-> <<>>, n |-> 0, f |-> f, err |-> FALSE,
                    step |-> step, ret |-> <<>>]

Logged(st, verb, id, res) ==
    [st EXCEPT !.n = @ + 1,
               !.calls = Append(@, [step |-> st.step, verb |-> verb, id |-> id,
                                    res |-> res])]

Failing(st) == st.n + 1 = st.f

Fail(st) == [st EXCEPT !.err = TRUE]

Exists(st, id) == id \in DOMAIN st.objs

\* A read: it is counted; of the reads only the failed ones are recorded.
Read(st) == [st EXCEPT !.n = @ + 1]

ApiGet(st, id) ==
    LET Do(s) ==
          IF s.err THEN s
          ELSE IF Failing(s) THEN Fail(Logged(s, "get", id, "error"))
          ELSE Read(s)
    IN CHOOSE r \in {Do(s) : s \in {st}} : TRUE

ApiList(st, kind, ns) ==
    LET Do(s) ==
          IF s.err THEN s
          ELSE IF Failing(s) THEN Fail(Logged(s, "list", <<kind, ns>>, "error"))
          ELSE Read(s)
    IN CHOOSE r \in {Do(s) : s \in {st}} : TRUE

ApiCreate(st, id, obj) ==
    LET Do(s) ==
          IF s.err THEN s
          ELSE IF Failing(s) THEN Fail(Logged(s, "create", id, "error"))
          ELSE IF Exists(s, id) THEN Fail(Logged(s, "create", id, "exists"))
          ELSE [Logged(s, "create", id, "ok") EXCEPT !.objs = MapPut(@, id, obj)]
    IN CHOOSE r \in {Do(s) : s \in {st}} : TRUE

ApiUpdate(st, id, obj) ==
    LET Do(s) ==
          IF s.err THEN s
          ELSE IF Failing(s) THEN Fail(Logged(s, "update", id, "error"))
          ELSE IF ~Exists(s, id) THEN Fail(Logged(s, "update", id, "notfound"))
          ELSE [Logged(s, "update", id, "ok") EXCEPT !.objs = MapPut(@, id, obj)]
    IN CHOOSE r \in {Do(s) : s \in {st}} : TRUE

\* Delete; NotFound is an error of the call unless the caller ignores it.
ApiDelete(st, id, ignoreNotFound) ==
    LET Do(s) ==
          IF s.err THEN s
          ELSE IF Failing(s) THEN Fail(Logged(s, "delete", id, "error"))
          ELSE IF ~Exists(s, id)
               THEN IF ignoreNotFound THEN Logged(s, "delete", id, "notfound")
                    ELSE Fail(Logged(s, "delete", id, "notfound"))
          ELSE [Logged(s, "delete", id, "ok") EXCEPT !.objs = MapDel(@, id)]
    IN CHOOSE r \in {Do(s) : s \in {st}} : TRUE

\* Server-side apply with force: the object becomes the applied configuration.
ApiPatch(st, id, obj) ==
    LET Do(s) ==
          IF s.err THEN s
          ELSE IF Failing(s) THEN Fail(Logged(s, "patch", id, "error"))
          ELSE [Logged(s, "patch", id, "ok") EXCEPT !.objs = MapPut(@, id, obj)]
    IN CHOOSE r \in {Do(s) : s \in {st}} : TRUE

\* A call of the clustering manager, or a local event worth recording: it is
\* no API call and cannot fail.
Noted(st, verb, id) ==
    LET Do(s) ==
          IF s.err THEN s
          ELSE [s EXCEPT !.calls = Append(@, [step |-> s.step, verb |-> verb, id |-> id,
                                               res |-> "ok"])]
    IN CHOOSE r \in {Do(s) : s \in {st}} : TRUE

WriteVerbs == {"create", "update", "patch", "delete", "status"}

ZeroObj == [data |-> EmptyMap, labels |-> EmptyMap, owner |-> "none"]

\* controllerutil.SetControllerReference: refuses an object that another
\* controller owns.
SetControllerReference(owner, obj) ==
    IF obj.owner \in {"none", owner}
    THEN [ok |-> TRUE, obj |-> [obj EXCEPT !.owner = owner]]
    ELSE [ok |-> FALSE, obj |-> obj]

\* What the mutate function of a CreateOrUpdate sets: the labels it merges in,
\* the data it replaces (when setData) and the controller it refers to.
Mutation(owner, labels, data) ==
    [owner |-> owner, labels |-> labels, setData |-> TRUE, data |-> data]

LabelsOnly(owner, labels) ==
    [owner |-> owner, labels |-> labels, setData |-> FALSE, data |-> EmptyMap]

Mutate(o, mut) ==
    SetControllerReference(mut.owner,
        [o EXCEPT !.labels = mergeMap(@, mut.labels),
                  !.data = IF mut.setData THEN mut.data ELSE @])

\* ctrl.CreateOrUpdate: Get; when absent mutate the empty object and Create
\* it; otherwise mutate the fetched object and Update it if that changed it.
CreateOrUpdate(st, id, mut) ==
    LET Do(g) ==
          IF g.err THEN g
          ELSE IF ~Exists(g, id)
               THEN LET m == Mutate(ZeroObj, mut)
                    IN IF m.ok THEN ApiCreate(g, id, m.obj) ELSE Fail(g)
          ELSE LET m == Mutate(g.objs[id], mut)
               IN IF ~m.ok THEN Fail(g)
                  ELSE IF m.obj = g.objs[id] THEN g
                  ELSE ApiUpdate(g, id, m.obj)
    IN CHOOSE r \in {Do(g) : g \in {ApiGet(st, id)}} : TRUE

-----------------------------------------------------------------------------
(* Credentials (pkg/password) *)

KeyUser == [ADMIN_PASSWORD |-> "admin", BACKUP_PASSWORD |-> "backup",
            READONLY_PASSWORD |-> "readonly"]

MyCnfUser == [k \in {"admin-my.cnf", "readonly-my.cnf"} |->
                 IF k = "admin-my.cnf" THEN "admin" ELSE "readonly"]

Users == {KeyUser[k] : k \in DOMAIN KeyUser}

Seeds == 1..NumSeeds

\* A fresh bundle: one password per user, drawn with the given seed.
NewMySQLPassword(seed) == [u \in Users |-> <<"pw", u, seed>>]

ToSecretData(passwd) == [k \in DOMAIN KeyUser |-> passwd[KeyUser[k]]]

ToMyCnfSecretData(passwd) ==
    [k \in DOMAIN MyCnfUser |->
        <<"[client]", "user=", MyCnfUser[k], "password=", passwd[MyCnfUser[k]]>>]

NewMySQLPasswordFromSecret(secret) ==
    IF DOMAIN KeyUser \subseteq DOMAIN secret.data
    THEN [ok |-> TRUE,
          passwd |-> [u \in Users |->
                        secret.data[CHOOSE k \in DOMAIN KeyUser : KeyUser[k] = u]]]
    ELSE [ok |-> FALSE, passwd |-> EmptyMap]

-----------------------------------------------------------------------------
(* reconcileV1Secret *)

MasterId(c) == Id("Secret", SystemNamespace, ControllerSecretName(c))
UserSecretId(c) == Id("Secret", c.namespace, UserSecretName(c))
MyCnfSecretId(c) == Id("Secret", c.namespace, MyCnfSecretName(c))

\* A credentials step that draws a new bundle on every run and stores it in
\* the master secret.
reconcileV1SecretRotating(st, c, seed) ==
    LET passwd == NewMySQLPassword(seed)
        g == Noted(ApiGet(st, MasterId(c)), "NewMySQLPassword", MasterId(c))
        s1 == IF Exists(g, MasterId(c))
              THEN ApiUpdate(g, MasterId(c),
                       [data |-> ToSecretData(passwd), labels |-> labelSet(c, TRUE),
                        owner |-> "none"])
              ELSE ApiCreate(g, MasterId(c),
                       [data |-> ToSecretData(passwd), labels |-> labelSet(c, TRUE),
                        owner |-> "none"])
        s2 == CreateOrUpdate(s1, UserSecretId(c),
                 Mutation("cluster", labelSet(c, FALSE),
                              ToSecretData(passwd)))
    IN CreateOrUpdate(s2, MyCnfSecretId(c),
                 Mutation("cluster", labelSet(c, FALSE),
                              ToMyCnfSecretData(passwd)))

\* A credentials step that creates the secrets that are missing and leaves
\* the others as they are.
reconcileV1SecretCreateOnly(st, c, seed) ==
    LET g == ApiGet(st, MasterId(c))
        passwd == IF Exists(g, MasterId(c))
                  THEN NewMySQLPasswordFromSecret(g.objs[MasterId(c)]).passwd
                  ELSE NewMySQLPassword(seed)
        s1 == IF Exists(g, MasterId(c)) THEN g
              ELSE ApiCreate(Noted(g, "NewMySQLPassword", MasterId(c)), MasterId(c),
                       [data |-> ToSecretData(passwd), labels |-> labelSet(c, TRUE),
                        owner |-> "none"])
        s2 == IF Exists(s1, UserSecretId(c)) THEN s1
              ELSE ApiCreate(s1, UserSecretId(c),
                       [data |-> ToSecretData(passwd), labels |-> labelSet(c, FALSE),
                        owner |-> "cluster"])
    IN IF Exists(s2, MyCnfSecretId(c)) THEN s2
       ELSE ApiCreate(s2, MyCnfSecretId(c),
                       [data |-> ToMyCnfSecretData(passwd), labels |-> labelSet(c, FALSE),
                        owner |-> "cluster"])

\* A credentials step that takes the existence of the master secret for the
\* existence of its derivatives.
reconcileV1SecretMasterOnly(st, c, seed) ==
    LET g == ApiGet(st, MasterId(c)) IN
    IF g.err \/ Exists(g, MasterId(c)) THEN g
    ELSE LET passwd == NewMySQLPassword(seed)
             s1 == ApiCreate(Noted(g, "NewMySQLPassword", MasterId(c)), MasterId(c),
                       [data |-> ToSecretData(passwd), labels |-> labelSet(c, TRUE),
                        owner |-> "none"])
             s2 == ApiCreate(s1, UserSecretId(c),
                       [data |-> ToSecretData(passwd), labels |-> labelSet(c, FALSE),
                        owner |-> "cluster"])
         IN ApiCreate(s2, MyCnfSecretId(c),
                       [data |-> ToMyCnfSecretData(passwd), labels |-> labelSet(c, FALSE),
                        owner |-> "cluster"])

reconcileV1Secret(st, c, seed) ==
    LET g == ApiGet(st, MasterId(c)) IN
    IF g.err THEN g
    ELSE IF Exists(g, MasterId(c))
    THEN LET parsed == NewMySQLPasswordFromSecret(g.objs[MasterId(c)]) IN
         IF ~parsed.ok THEN Fail(g)
         ELSE LET u == CreateOrUpdate(g, UserSecretId(c),
                         Mutation("cluster", labelSet(c, FALSE),
                                      ToSecretData(parsed.passwd)))
              IN CreateOrUpdate(u, MyCnfSecretId(c),
                         Mutation("cluster", labelSet(c, FALSE),
                                      ToMyCnfSecretData(parsed.passwd)))
    ELSE LET passwd == NewMySQLPassword(seed)
             s1 == ApiCreate(Noted(g, "NewMySQLPassword", MasterId(c)), MasterId(c),
                       [data |-> ToSecretData(passwd), labels |-> labelSet(c, TRUE),
                        owner |-> "none"])
             s2 == ApiCreate(s1, UserSecretId(c),
                       [data |-> ToSecretData(passwd), labels |-> labelSet(c, FALSE),
                        owner |-> "cluster"])
         IN ApiCreate(s2, MyCnfSecretId(c),
                       [data |-> ToMyCnfSecretData(passwd), labels |-> labelSet(c, FALSE),
                        owner |-> "cluster"])

-----------------------------------------------------------------------------
(* my.cnf: text is a sequence of bytes (pkg/mycnf, hash/fnv, encoding/hex) *)

\* The keys of a my.cnf map, in the order in which they are rendered (sorted),
\* and their bytes.
ConfKeys == <<"datadir", "innodb_buffer_pool_size", "max_connections">>

KeyBytes ==
    [datadir |-> <<100, 97, 116, 97, 100, 105, 114>>,
     innodb_buffer_pool_size |-> <<105, 110, 110, 111, 100, 98, 95, 98, 117, 102, 102,
                                   101, 114, 95, 112, 111, 111, 108, 95, 115, 105, 122,
                                   101>>,
     max_connections |-> <<109, 97, 120, 95, 99, 111, 110, 110, 101, 99, 116, 105, 111,
                           110, 115>>]

SectionBytes == <<91, 109, 121, 115, 113, 108, 100, 93, 10>>   \* "[mysqld]\n"
EqBytes == <<32, 61, 32>>                                        \* " = "
NewlineBytes == <<10>>                                           \* "\n"
VarLibMysql == <<47, 118, 97, 114, 47, 108, 105, 98, 47, 109, 121, 115, 113, 108>>
TmpDir == <<47, 116, 109, 112>>                                  \* "/tmp"
Str100000 == <<49, 48, 48, 48, 48, 48>>
Str5000 == <<53, 48, 48, 48>>
Str64M == <<54, 52, 77>>

RECURSIVE Decimal(_)
Decimal(n) == IF n < 10 THEN <<48 + n>> ELSE Append(Decimal(n \div 10), 48 + (n % 10))

MiB == 1024 * 1024

\* The layers of the generated my.cnf.
defaultMycnf == [max_connections |-> Str100000]

constMycnf == [datadir |-> VarLibMysql]

\* A tuning that sets the buffer pool at 128 MiB already.
tuningMycnfFrom128(totalMem) ==
    IF totalMem >= 128 * MiB
    THEN [innodb_buffer_pool_size |-> Append(Decimal(((totalMem \div 10) * 7) \div MiB), 77)]
    ELSE EmptyMap

tuningMycnf(totalMem) ==
    IF totalMem > 128 * MiB
    THEN [innodb_buffer_pool_size |-> Append(Decimal(((totalMem \div 10) * 7) \div MiB), 77)]
    ELSE EmptyMap

RECURSIVE Render(_, _)
Render(conf, i) ==
    IF i > Len(ConfKeys) THEN <<>>
    ELSE IF ConfKeys[i] \in DOMAIN conf
         THEN KeyBytes[ConfKeys[i]] \o EqBytes \o conf[ConfKeys[i]] \o NewlineBytes
              \o Render(conf, i + 1)
         ELSE Render(conf, i + 1)

\* A generator that merges the user's keys last.
GenerateUserLast(userConf, totalMem) ==
    SectionBytes \o
    Render(mergeMap(mergeMap(mergeMap(defaultMycnf, tuningMycnf(totalMem)), constMycnf),
                    userConf), 1)

Generate(userConf, totalMem) ==
    SectionBytes \o
    Render(mergeMap(mergeMap(mergeMap(defaultMycnf, tuningMycnf(totalMem)), userConf),
                    constMycnf), 1)

\* FNV-32a over 32-bit words kept as two 16-bit halves <<hi, lo>>.
RECURSIVE XorBits(_, _)
XorBits(a, b) ==
    IF a = 0 THEN b
    ELSE IF b = 0 THEN a
    ELSE ((a + b) % 2) + 2 * XorBits(a \div 2, b \div 2)

\* The exclusive or of two 4-bit numbers, tabulated.
XorNibble == [a \in 0..15 |-> [b \in 0..15 |-> XorBits(a, b)]]

\* The exclusive or of a 16-bit number and a byte.
Xor(a, b) ==
    (a \div 256) * 256
    + 16 * XorNibble[(a \div 16) % 16][b \div 16]
    + XorNibble[a % 16][b % 16]

FnvStep(h, byte) ==
    LET lo == Xor(h[2], byte)
        t == lo * 403
    IN <<(h[1] * 403 + lo * 256 + (t \div 65536)) % 65536, t % 65536>>

\* The hash after the bytes lo..hi, from the hash h before them (split in
\* halves to keep the evaluation shallow).
RECURSIVE FnvFrom(_, _, _, _)
FnvFrom(h, bytes, lo, hi) ==
    IF lo > hi THEN h
    ELSE IF lo = hi THEN FnvStep(h, bytes[lo])
    ELSE LET mid == (lo + hi) \div 2
             left == FnvFrom(h, bytes, lo, mid)
         IN IF left[1] >= 0 THEN FnvFrom(left, bytes, mid + 1, hi) ELSE left

fnv32a(bytes) == FnvFrom(<<33052, 40389>>, bytes, 1, Len(bytes))

HexDigits == <<"0", "1", "2", "3", "4", "5", "6", "7", "8", "9",
               "a", "b", "c", "d", "e", "f">>

Hex16(x) == <<HexDigits[(x \div 4096) + 1], HexDigits[((x \div 256) % 16) + 1],
              HexDigits[((x \div 16) % 16) + 1], HexDigits[(x % 16) + 1]>>

EncodeToString(h) == Hex16(h[1]) \o Hex16(h[2])

\* The name of the my.cnf ConfigMap of a rendered text.
MyCnfName(c, conf) == PrefixedName(c) \o <<".">> \o EncodeToString(fnv32a(conf))

-----------------------------------------------------------------------------
(* reconcileV1Certificate, reconcileV1GRPCSecret *)

CertificateId(c) == Id("Certificate", SystemNamespace, CertificateName(c))
CertSecretId(c) == Id("Secret", SystemNamespace, CertificateName(c))
GRPCSecretId(c) == Id("Secret", c.namespace, GRPCSecretName(c))

\* Create the Certificate in the operator namespace unless it exists.
reconcileV1Certificate(st, c) ==
    LET g == ApiGet(st, CertificateId(c)) IN
    IF g.err \/ Exists(g, CertificateId(c)) THEN g
    ELSE ApiCreate(g, CertificateId(c),
                   [data |-> [secretName |-> CertificateName(c)],
                    labels |-> EmptyMap, owner |-> "none"])

\* Copy the issued secret, once cert-manager has made it, into the cluster's
\* namespace.
reconcileV1GRPCSecret(st, c) ==
    LET g == ApiGet(st, CertSecretId(c)) IN
    IF g.err \/ ~Exists(g, CertSecretId(c)) THEN g
    ELSE CreateOrUpdate(g, GRPCSecretId(c),
             Mutation("cluster", labelSet(c, FALSE),
                          g.objs[CertSecretId(c)].data))

-----------------------------------------------------------------------------
(* reconcileV1MyCnf *)

ConfigMapId(c, name) == Id("ConfigMap", c.namespace, name)

\* requests.memory takes precedence over limits.memory; 0 when neither is set.
TotalMem(c) ==
    IF c.spec.requestsMemory # 0 THEN c.spec.requestsMemory ELSE c.spec.limitsMemory

\* A collection that finds nothing to delete.
OldMyCnfsNone(o, c, keep) == {}

\* The ConfigMaps of the List whose names have the prefix and are not `keep`.
OldMyCnfs(o, c, keep) ==
    {id \in DOMAIN o :
        /\ KindOf(id) = "ConfigMap"
        /\ NamespaceOf(id) = c.namespace
        /\ IsPrefix(PrefixedName(c) \o <<".">>, NameOf(id))
        /\ NameOf(id) # keep}

RECURSIVE DeleteAll(_, _)
DeleteAll(st, ids) ==
    IF ids = {} \/ st.err THEN st
    ELSE LET id == CHOOSE x \in ids : TRUE
         IN DeleteAll(ApiDelete(st, id, FALSE), ids \ {id})

\* A reconcileV1MyCnf that creates the ConfigMap when it is absent and leaves an
\* existing one as it is.
reconcileV1MyCnfCreateOnly(st, c) ==
    IF ~c.spec.mysqld THEN Fail(st)
    ELSE
    LET hasUser == c.spec.mysqlConfigMapName # <<>>
        userId == ConfigMapId(c, c.spec.mysqlConfigMapName)
        g == IF hasUser THEN ApiGet(st, userId) ELSE st
    IN IF g.err THEN g
       ELSE IF hasUser /\ ~Exists(g, userId) THEN Fail(g)
       ELSE
       LET userConf == IF hasUser THEN g.objs[userId].data ELSE EmptyMap
           conf == Generate(userConf, TotalMem(c))
           name == MyCnfName(c, conf)
           q == ApiGet(g, ConfigMapId(c, name))
           cm == IF q.err \/ Exists(q, ConfigMapId(c, name)) THEN q
                 ELSE ApiCreate(q, ConfigMapId(c, name),
                          Mutate(ZeroObj, Mutation("cluster", labelSet(c, FALSE),
                                                   [k \in {"my.cnf"} |-> conf])).obj)
           l == ApiList(cm, "ConfigMap", c.namespace)
           d == IF l.err THEN l ELSE DeleteAll(l, OldMyCnfs(l.objs, c, name))
       IN IF d.err THEN d ELSE [d EXCEPT !.ret = name]

reconcileV1MyCnf(st, c) ==
    IF ~c.spec.mysqld THEN Fail(st)
    ELSE
    LET hasUser == c.spec.mysqlConfigMapName # <<>>
        userId == ConfigMapId(c, c.spec.mysqlConfigMapName)
        g == IF hasUser THEN ApiGet(st, userId) ELSE st
    IN IF g.err THEN g
       ELSE IF hasUser /\ ~Exists(g, userId) THEN Fail(g)
       ELSE
       LET userConf == IF hasUser THEN g.objs[userId].data ELSE EmptyMap
           conf == Generate(userConf, TotalMem(c))
           name == MyCnfName(c, conf)
           cm == CreateOrUpdate(g, ConfigMapId(c, name),
                    Mutation("cluster", labelSet(c, FALSE),
                                 [k \in {"my.cnf"} |-> conf]))
           l == ApiList(cm, "ConfigMap", c.namespace)
           d == IF l.err THEN l ELSE DeleteAll(l, OldMyCnfs(l.objs, c, name))
       IN IF d.err THEN d ELSE [d EXCEPT !.ret = name]

-----------------------------------------------------------------------------
(* reconcileV1FluentBitConfigMap, reconcileV1ServiceAccount *)

SlowLogConfigMapId(c) == ConfigMapId(c, SlowQueryLogAgentConfigMapName(c))
ServiceAccountId(c) == Id("ServiceAccount", c.namespace, PrefixedName(c))

reconcileV1FluentBitConfigMap(st, c) ==
    IF ~c.spec.disableSlowQueryLogContainer
    THEN CreateOrUpdate(st, SlowLogConfigMapId(c),
             Mutation("cluster", labelSet(c, FALSE),
                          [k \in {"fluent-bit.conf"} |-> <<"configTmpl">>]))
    ELSE ApiDelete(st, SlowLogConfigMapId(c), TRUE)

\* A step that leaves the ServiceAccount alone once the generation is recorded.
reconcileV1ServiceAccountOncePerGeneration(st, c) ==
    IF c.status.reconcileInfo.generation = c.generation THEN st
    ELSE CreateOrUpdate(st, ServiceAccountId(c), LabelsOnly("cluster", labelSet(c, FALSE)))

\* A step that logs the error of the ServiceAccount and goes on.
reconcileV1ServiceAccountBestEffort(st, c) ==
    [CreateOrUpdate(st, ServiceAccountId(c), LabelsOnly("cluster", labelSet(c, FALSE)))
        EXCEPT !.err = FALSE]

reconcileV1ServiceAccount(st, c) ==
    CreateOrUpdate(st, ServiceAccountId(c),
        LabelsOnly("cluster", labelSet(c, FALSE)))

-----------------------------------------------------------------------------
(* Server-side apply: reconcileV1Service, reconcileV1StatefulSet *)

\* The apply configuration of an object that does not exist.
NoApplyConfig == [data |-> EmptyMap, labels |-> EmptyMap, owner |-> "none"]

\* ExtractService / ExtractStatefulSet: the fields of the live object that
\* the field manager moco-controller owns, which are those it applied.
Extract(o, id) == IF id \in DOMAIN o THEN o[id] ELSE NoApplyConfig

\* An apply that sends the patch without comparing.
ApplyAlways(st, id, desired) == ApiPatch(st, id, desired)

\* Get the live object, extract what was applied, and apply only on a
\* difference.
Apply(st, id, desired) ==
    LET g == ApiGet(st, id) IN
    IF g.err THEN g
    ELSE IF desired = Extract(g.objs, id) THEN g
    ELSE ApiPatch(g, id, desired)

ServiceId(c, name) == Id("Service", c.namespace, name)

MySQLPort == 3306
MySQLXPort == 33060

\* A nodePort that is not set: the nil of the *int32 of a port of the template.
NilNodePort == -1

\* The two ports the operator appends, with the nodePorts it has picked up.
servicePorts(mysqlNodePort, mysqlXNodePort) ==
    <<[name |-> "mysql", protocol |-> "TCP", port |-> MySQLPort,
       targetPort |-> "mysql", nodePort |-> mysqlNodePort],
      [name |-> "mysqlx", protocol |-> "TCP", port |-> MySQLXPort,
       targetPort |-> "mysqlx", nodePort |-> mysqlXNodePort]>>

\* The ports of the apply configuration after WithSpec: those of the template.
TemplatePorts(template, headless) ==
    IF ~headless /\ template # <<>> THEN template.ports ELSE <<>>

\* The labels of the apply configuration after WithLabels(tmpl.Labels).
TemplateLabels(template, headless) ==
    IF ~headless /\ template # <<>> THEN template.labels ELSE EmptyMap

\* The loop over svc.Spec.Ports: the nodePort of the last port of the name,
\* 0 when there is none.
NodePortOf(ports, name) ==
    LET named == {i \in DOMAIN ports : ports[i].name = name} IN
    IF named = {} THEN 0
    ELSE ports[CHOOSE i \in named : \A j \in named : j <= i].nodePort

\* The loop dereferences the nodePort of a port named mysql or mysqlx.
NilDereference(ports) ==
    \E i \in DOMAIN ports :
        ports[i].name \in {"mysql", "mysqlx"} /\ ports[i].nodePort = NilNodePort

\* The API server's validation of the ports of a Service: no two ports of one
\* name, no two of one port number and protocol.
ValidPorts(ports) ==
    \A i, j \in DOMAIN ports :
        i # j => /\ ports[i].name # ports[j].name
                 /\ <<ports[i].port, ports[i].protocol>> # <<ports[j].port, ports[j].protocol>>

\* The apply of a Service, which the API server validates.
ApplyService(st, id, desired) ==
    LET g == ApiGet(st, id) IN
    IF \/ g.err
       \/ desired = Extract(g.objs, id)
       \/ Failing(g)
       \/ ValidPorts(desired.data.ports)
    THEN Apply(st, id, desired)
    ELSE Fail(Logged(g, "patch", id, "invalid"))

\* The apply configuration of the Service.
ServiceApplyConfiguration(c, template, headless, selector) ==
    LET ports == TemplatePorts(template, headless) IN
    [labels |-> mergeMap(TemplateLabels(template, headless), labelSet(c, FALSE)),
     owner |-> "cluster",
     data |-> [headless |-> headless,
               publishNotReadyAddresses |-> headless,
               selector |-> selector,
               ports |-> ports \o servicePorts(NodePortOf(ports, "mysql"),
                                               NodePortOf(ports, "mysqlx"))]]

\* A panic of the nil dereference ends the step before any API call.
reconcileV1Service1(st, c, template, name, headless, selector) ==
    IF st.err THEN st
    ELSE IF NilDereference(TemplatePorts(template, headless)) THEN Fail(st)
    ELSE ApplyService(st, ServiceId(c, name),
                      ServiceApplyConfiguration(c, template, headless, selector))

reconcileV1Service(st, c) ==
    LET h == reconcileV1Service1(st, c, <<>>, HeadlessServiceName(c), TRUE,
                 labelSet(c, FALSE))
        p == reconcileV1Service1(h, c, c.spec.primaryServiceTemplate,
                 PrimaryServiceName(c), FALSE,
                 MapPut(labelSet(c, FALSE), "LabelMocoRole", <<"primary">>))
    IN reconcileV1Service1(p, c, c.spec.replicaServiceTemplate,
                 ReplicaServiceName(c), FALSE,
                 MapPut(labelSet(c, FALSE), "LabelMocoRole", <<"replica">>))

StatefulSetId(c) == Id("StatefulSet", c.namespace, PrefixedName(c))

\* The image of the slow-query sidecar: the one of the live StatefulSet,
\* unless the generation has advanced (force) or there is none yet.
\* The agent's container: its builder is given the cluster only, and the
\* reconciler's configuration names the image.
makeV1AgentContainer(op, c) == [name |-> "agent", image |-> op.AgentImage]

\* A sidecar whose image always is the configured one.
makeV1SlowQueryLogContainerConfigured(op, sts, force) ==
    [name |-> "slow-log", image |-> op.FluentBitImage]

makeV1SlowQueryLogContainer(op, sts, force) ==
    LET live == IF "containers" \in DOMAIN sts.data
                THEN {i \in DOMAIN sts.data.containers :
                         sts.data.containers[i].name = "slow-log"}
                ELSE {}
    IN [name |-> "slow-log",
        image |-> IF ~force /\ live # {}
                  THEN sts.data.containers[CHOOSE i \in live : TRUE].image
                  ELSE op.FluentBitImage]

\* The names of the volumes the operator adds to the pod: four emptyDirs, the
\* my.cnf ConfigMap, the two secrets and, with the sidecar, its ConfigMap.
OperatorVolumes(c) ==
    {"tmp", "run", "varlog", "mysql-init-conf", "mysql-conf", "my-cnf-secret", "grpc-cert"}
        \cup (IF c.spec.disableSlowQueryLogContainer THEN {}
              ELSE {"slow-fluent-bit-config"})

reconcileV1StatefulSet(st, c, op, mycnfName) ==
    LET id == StatefulSetId(c)
        g == ApiGet(st, id)
        force == c.status.reconcileInfo.generation # c.generation
        containers ==
            <<[name |-> "mysqld", image |-> c.spec.image],
              makeV1AgentContainer(op, c)>>
            \o (IF ~c.spec.disableSlowQueryLogContainer
                THEN <<makeV1SlowQueryLogContainer(op, Extract(g.objs, id), force)>>
                ELSE <<>>)
        volumes ==
            [k \in OperatorVolumes(c) |->
                CASE k = "mysql-conf" -> mycnfName
                  [] k = "my-cnf-secret" -> MyCnfSecretName(c)
                  [] k = "grpc-cert" -> GRPCSecretName(c)
                  [] k = "slow-fluent-bit-config" -> SlowQueryLogAgentConfigMapName(c)
                  [] OTHER -> <<>>]
        volumeClaimTemplates ==
            [i \in DOMAIN c.spec.volumeClaimTemplates |->
                [name |-> c.spec.volumeClaimTemplates[i], owner |-> "cluster"]]
        sts == [labels |-> labelSet(c, FALSE),
                owner |-> "cluster",
                data |-> [replicas |-> c.spec.replicas,
                          selector |-> labelSet(c, FALSE),
                          podManagementPolicy |-> "Parallel",
                          serviceName |-> HeadlessServiceName(c),
                          volumeClaimTemplates |-> volumeClaimTemplates,
                          templateLabels |-> mergeMap(c.spec.podTemplateLabels,
                                                      labelSet(c, FALSE)),
                          serviceAccountName |-> PrefixedName(c),
                          volumes |-> volumes,
                          containers |-> containers]]
    IN IF g.err THEN g
       ELSE IF sts = Extract(g.objs, id) THEN g
       ELSE ApiPatch(g, id, sts)

-----------------------------------------------------------------------------
(* reconcileV1PDB, reconcileV1BackupJob, reconcileV1RestoreJob *)

PDBId(c) == Id("PodDisruptionBudget", c.namespace, PrefixedName(c))

\* A step that keeps the PodDisruptionBudget for more than three replicas only.
reconcileV1PDBAboveThree(st, c) ==
    IF c.spec.replicas <= 3
    THEN ApiDelete(st, PDBId(c), TRUE)
    ELSE CreateOrUpdate(st, PDBId(c),
             Mutation("cluster", labelSet(c, FALSE),
                          [maxUnavailable |-> c.spec.replicas \div 2,
                                    selector |-> labelSet(c, FALSE)]))

reconcileV1PDB(st, c) ==
    IF c.spec.replicas < 3
    THEN ApiDelete(st, PDBId(c), TRUE)
    ELSE CreateOrUpdate(st, PDBId(c),
             Mutation("cluster", labelSet(c, FALSE),
                          [maxUnavailable |-> c.spec.replicas \div 2,
                                    selector |-> labelSet(c, FALSE)]))

BackupPolicyId(c) == Id("BackupPolicy", c.namespace, c.spec.backupPolicyName)
CronJobId(c) == Id("CronJob", c.namespace, BackupCronJobName(c))
BackupRoleId(c) == Id("Role", c.namespace, BackupRoleName(c))
BackupRoleBindingId(c) == Id("RoleBinding", c.namespace, BackupRoleName(c))

\* A deletion that reports an absent object as an error.
DeleteIfExistsOrFail(st, id) ==
    LET g == ApiGet(st, id) IN
    IF g.err THEN g
    ELSE IF ~Exists(g, id) THEN Fail(g)
    ELSE ApiDelete(g, id, FALSE)

\* Get the object and delete it when it is there.
DeleteIfExists(st, id) ==
    LET g == ApiGet(st, id) IN
    IF g.err \/ ~Exists(g, id) THEN g ELSE ApiDelete(g, id, FALSE)

\* A backup step that takes a missing backup policy for an unset one.
reconcileV1BackupJobMissingAsUnset(st, c, op) ==
    LET g == IF c.spec.backupPolicyName = <<>> THEN st ELSE ApiGet(st, BackupPolicyId(c)) IN
    IF g.err THEN g
    ELSE IF c.spec.backupPolicyName = <<>> \/ ~Exists(g, BackupPolicyId(c))
    THEN DeleteIfExists(DeleteIfExists(DeleteIfExists(g, CronJobId(c)),
                                       BackupRoleId(c)),
                        BackupRoleBindingId(c))
    ELSE
    LET bp == g.objs[BackupPolicyId(c)].data
        cj == CreateOrUpdate(g, CronJobId(c),
                 Mutation("cluster", labelSetForJob(c),
                              [schedule |-> bp.schedule,
                                        serviceAccountName |-> bp.serviceAccountName,
                                        image |-> op.BackupImage,
                                        args |-> <<"backup", c.namespace>> \o c.name]))
        role == CreateOrUpdate(cj, BackupRoleId(c),
                 Mutation("cluster", labelSetForJob(c),
                              [rules |-> <<"backup-rules">> \o c.name]))
    IN CreateOrUpdate(role, BackupRoleBindingId(c),
                 Mutation("cluster", labelSetForJob(c),
                              [roleRef |-> BackupRoleName(c),
                                        subject |-> bp.serviceAccountName]))

reconcileV1BackupJob(st, c, op) ==
    IF c.spec.backupPolicyName = <<>>
    THEN DeleteIfExists(DeleteIfExists(DeleteIfExists(st, CronJobId(c)),
                                       BackupRoleId(c)),
                        BackupRoleBindingId(c))
    ELSE
    LET g == ApiGet(st, BackupPolicyId(c)) IN
    IF g.err THEN g
    ELSE IF ~Exists(g, BackupPolicyId(c)) THEN Fail(g)
    ELSE
    LET bp == g.objs[BackupPolicyId(c)].data
        cj == CreateOrUpdate(g, CronJobId(c),
                 Mutation("cluster", labelSetForJob(c),
                              [schedule |-> bp.schedule,
                                        serviceAccountName |-> bp.serviceAccountName,
                                        image |-> op.BackupImage,
                                        args |-> <<"backup", c.namespace>> \o c.name]))
        role == CreateOrUpdate(cj, BackupRoleId(c),
                 Mutation("cluster", labelSetForJob(c),
                              [rules |-> <<"backup-rules">> \o c.name]))
    IN CreateOrUpdate(role, BackupRoleBindingId(c),
                 Mutation("cluster", labelSetForJob(c),
                              [roleRef |-> BackupRoleName(c),
                                        subject |-> bp.serviceAccountName]))

RestoreJobId(c) == Id("Job", c.namespace, RestoreJobName(c))
RestoreRoleId(c) == Id("Role", c.namespace, RestoreRoleName(c))
RestoreRoleBindingId(c) == Id("RoleBinding", c.namespace, RestoreRoleName(c))

\* A restore step that does not look at status.restoredTime.
reconcileV1RestoreJobAfterRestore(st, c, op) ==
    IF ~c.spec.restore THEN st
    ELSE
    LET g == ApiGet(st, RestoreJobId(c))
        job == IF g.err \/ Exists(g, RestoreJobId(c)) THEN g
               ELSE ApiCreate(g, RestoreJobId(c),
                        [labels |-> labelSetForJob(c),
                         owner |-> "cluster",
                         data |-> [backoffLimit |-> 0,
                                   restartPolicy |-> "Never",
                                   image |-> op.BackupImage,
                                   args |-> <<"restore", c.namespace>> \o c.name,
                                   conditions |-> <<>>]])
        role == CreateOrUpdate(job, RestoreRoleId(c),
                 Mutation("job", labelSetForJob(c),
                              [rules |-> <<"restore-rules">> \o c.name]))
    IN CreateOrUpdate(role, RestoreRoleBindingId(c),
                 Mutation("job", labelSetForJob(c),
                              [roleRef |-> RestoreRoleName(c),
                                        subject |-> <<"restore-sa">>]))

\* A restore step that replaces a Job that has failed.
reconcileV1RestoreJobRetrying(st, c, op) ==
    IF ~c.spec.restore \/ c.status.restoredTime THEN st
    ELSE
    LET g == ApiGet(st, RestoreJobId(c))
        new == [labels |-> labelSetForJob(c),
                owner |-> "cluster",
                data |-> [backoffLimit |-> 0,
                          restartPolicy |-> "Never",
                          image |-> op.BackupImage,
                          args |-> <<"restore", c.namespace>> \o c.name,
                          conditions |-> <<>>]]
        job == IF g.err THEN g
               ELSE IF ~Exists(g, RestoreJobId(c)) THEN ApiCreate(g, RestoreJobId(c), new)
               ELSE IF g.objs[RestoreJobId(c)].data.conditions = <<"Failed">>
                    THEN ApiUpdate(g, RestoreJobId(c), new)
               ELSE g
        role == CreateOrUpdate(job, RestoreRoleId(c),
                 Mutation("job", labelSetForJob(c),
                              [rules |-> <<"restore-rules">> \o c.name]))
    IN CreateOrUpdate(role, RestoreRoleBindingId(c),
                 Mutation("job", labelSetForJob(c),
                              [roleRef |-> RestoreRoleName(c),
                                        subject |-> <<"restore-sa">>]))

reconcileV1RestoreJob(st, c, op) ==
    IF ~c.spec.restore \/ c.status.restoredTime THEN st
    ELSE
    LET g == ApiGet(st, RestoreJobId(c))
        job == IF g.err \/ Exists(g, RestoreJobId(c)) THEN g
               ELSE ApiCreate(g, RestoreJobId(c),
                        [labels |-> labelSetForJob(c),
                         owner |-> "cluster",
                         data |-> [backoffLimit |-> 0,
                                   restartPolicy |-> "Never",
                                   image |-> op.BackupImage,
                                   args |-> <<"restore", c.namespace>> \o c.name,
                                   conditions |-> <<>>]])
        role == CreateOrUpdate(job, RestoreRoleId(c),
                 Mutation("job", labelSetForJob(c),
                              [rules |-> <<"restore-rules">> \o c.name]))
    IN CreateOrUpdate(role, RestoreRoleBindingId(c),
                 Mutation("job", labelSetForJob(c),
                              [roleRef |-> RestoreRoleName(c),
                                        subject |-> <<"restore-sa">>]))

-----------------------------------------------------------------------------
(* The MySQLCluster object, the status write and finalizeV1 *)

\* r.Status().Update: writes the status of the given copy, nothing else.
ApiStatusUpdate(st, c) ==
    LET Do(s) ==
          IF s.err THEN s
          ELSE IF Failing(s) THEN Fail(Logged(s, "status", ClusterId(c), "error"))
          ELSE IF ~Exists(s, ClusterId(c))
               THEN Fail(Logged(s, "status", ClusterId(c), "notfound"))
          ELSE [Logged(s, "status", ClusterId(c), "ok")
                   EXCEPT !.objs[ClusterId(c)].status = c.status]
    IN CHOOSE r \in {Do(s) : s \in {st}} : TRUE

\* r.Update of the MySQLCluster: writes metadata and spec, not the status.  An
\* object with a deletionTimestamp goes away with its last finalizer (the
\* garbage collector holds one of its own during a foreground deletion).
ApiUpdateCluster(st, c) ==
    LET Do(s) ==
          IF s.err THEN s
          ELSE IF Failing(s) THEN Fail(Logged(s, "update", ClusterId(c), "error"))
          ELSE IF ~Exists(s, ClusterId(c))
               THEN Fail(Logged(s, "update", ClusterId(c), "notfound"))
          ELSE IF c.deletionTimestamp /\ ~c.finalizer /\ ~c.foregroundDeletion
               THEN [Logged(s, "update", ClusterId(c), "ok")
                        EXCEPT !.objs = MapDel(@, ClusterId(c))]
          ELSE [Logged(s, "update", ClusterId(c), "ok")
                   EXCEPT !.objs[ClusterId(c)].finalizer = c.finalizer]
    IN CHOOSE r \in {Do(s) : s \in {st}} : TRUE

\* The end of reconcileV1, writing the status whether the generation has
\* moved or not.
updateReconcileInfoAlways(st, c) ==
    LET set == [c EXCEPT !.status.reconcileInfo =
                   [generation |-> c.generation, reconcileVersion |-> 1]]
    IN [ApiStatusUpdate(st, set) EXCEPT !.ret = set]

\* The end of reconcileV1: record the generation and the reconciler version
\* when the generation has moved.  ret is the cluster as the run now holds it.
updateReconcileInfo(st, c) ==
    IF c.status.reconcileInfo.generation # c.generation
    THEN LET set == [c EXCEPT !.status.reconcileInfo =
                        [generation |-> c.generation, reconcileVersion |-> 1]]
         IN [ApiStatusUpdate(st, set) EXCEPT !.ret = set]
    ELSE [st EXCEPT !.ret = c]

\* A finalizer that goes on whatever the deletions return.
finalizeV1Lenient(st, c) ==
    LET master == [ApiDelete(st, MasterId(c), TRUE) EXCEPT !.err = FALSE]
    IN [ApiDelete(master, CertificateId(c), TRUE) EXCEPT !.err = FALSE]

\* A finalizer that takes the NotFound of a deletion for an error.
finalizeV1Strict(st, c) ==
    ApiDelete(ApiDelete(st, MasterId(c), FALSE), CertificateId(c), FALSE)

finalizeV1(st, c) ==
    ApiDelete(ApiDelete(st, MasterId(c), TRUE), CertificateId(c), TRUE)

-----------------------------------------------------------------------------
(* The one cluster of the model and the objects around it *)

Key == [namespace |-> "ns", name |-> <<"c">>]

\* SetupWithManager: the number of workers of the controller.
MaxConcurrentReconciles == 8

\* The request keys of the clusters of the namespace: Key and its neighbours,
\* one cluster more than there are workers.
Requests ==
    {Key} \cup {[namespace |-> Key.namespace, name |-> <<"c", i>>] :
                   i \in 2..(MaxConcurrentReconciles + 1)}

UserConfigMapName == <<"user-conf">>
BackupPolicyName == <<"bp">>

Mem256Mi == 256 * MiB

\* Labels a user puts on the pod template.
TeamLabels == [k \in {"team"} |-> <<"db">>]

MinimalSpec ==
    [mysqld |-> TRUE, image |-> "mysql:8.0", requestsMemory |-> 0, limitsMemory |-> 0,
     mysqlConfigMapName |-> <<>>, backupPolicyName |-> <<>>, restore |-> FALSE,
     replicas |-> 1, disableSlowQueryLogContainer |-> TRUE,
     podTemplateLabels |-> EmptyMap, volumeClaimTemplates |-> <<"mysql-data">>,
     primaryServiceTemplate |-> <<>>, replicaServiceTemplate |-> <<>>]

FullSpec ==
    [mysqld |-> TRUE, image |-> "mysql:8.0", requestsMemory |-> 0,
     limitsMemory |-> Mem256Mi,
     mysqlConfigMapName |-> UserConfigMapName, backupPolicyName |-> BackupPolicyName,
     restore |-> TRUE, replicas |-> 3, disableSlowQueryLogContainer |-> FALSE,
     podTemplateLabels |-> TeamLabels, volumeClaimTemplates |-> <<"mysql-data">>,
     primaryServiceTemplate |-> <<>>, replicaServiceTemplate |-> <<>>]

InitSpecs == {MinimalSpec, FullSpec}

NewCluster(spec) ==
    [namespace |-> Key.namespace, name |-> Key.name,
     deletionTimestamp |-> FALSE, finalizer |-> TRUE, foregroundDeletion |-> FALSE,
     generation |-> 1,
     spec |-> spec,
     status |-> [reconcileInfo |-> [generation |-> 0, reconcileVersion |-> 0],
                 restoredTime |-> FALSE]]

UserConfigMap(value) ==
    [data |-> [max_connections |-> value], labels |-> EmptyMap, owner |-> "none"]

BackupPolicy ==
    [data |-> [schedule |-> "@daily", serviceAccountName |-> <<"backup-sa">>],
     labels |-> EmptyMap, owner |-> "none"]

Operator(version) ==
    [AgentImage |-> <<"moco-agent", version>>,
     FluentBitImage |-> <<"fluent-bit", version>>,
     BackupImage |-> <<"moco-backup", version>>]

NoCluster == [namespace |-> Key.namespace, name |-> Key.name]

NoDeletion == [id |-> <<>>, before |-> EmptyMap, operator |-> <<>>]

Init ==
    /\ \E spec \in InitSpecs :
         objs = MapPut(MapPut(MapPut(EmptyMap, ClusterId(Key), NewCluster(spec)),
                              ConfigMapId(Key, UserConfigMapName), UserConfigMap(Str5000)),
                       Id("BackupPolicy", Key.namespace, BackupPolicyName), BackupPolicy)
    /\ cluster = NoCluster
    /\ entry = NoCluster
    /\ pc = "idle"
    /\ reconciler = 0
    /\ mycnf = <<>>
    /\ calls = <<>>
    /\ steps = <<>>
    /\ result = "none"
    /\ errStep = ""
    /\ quiet = FALSE
    /\ wasQuiet = FALSE
    /\ envOps = 0
    /\ operator = Operator(1)
    /\ faults = FALSE
    /\ entryObjs = EmptyMap
    /\ dirty = {}
    /\ running = [k \in Requests |-> 0]
    /\ deleted = NoDeletion

\* The same, with API calls that may fail.
InitFaulty ==
    /\ \E spec \in InitSpecs :
         objs = MapPut(MapPut(MapPut(EmptyMap, ClusterId(Key), NewCluster(spec)),
                              ConfigMapId(Key, UserConfigMapName), UserConfigMap(Str5000)),
                       Id("BackupPolicy", Key.namespace, BackupPolicyName), BackupPolicy)
    /\ cluster = NoCluster
    /\ entry = NoCluster
    /\ pc = "idle"
    /\ reconciler = 0
    /\ mycnf = <<>>
    /\ calls = <<>>
    /\ steps = <<>>
    /\ result = "none"
    /\ errStep = ""
    /\ quiet = FALSE
    /\ wasQuiet = FALSE
    /\ envOps = 0
    /\ operator = Operator(1)
    /\ faults = TRUE
    /\ entryObjs = EmptyMap
    /\ dirty = {}
    /\ running = [k \in Requests |-> 0]
    /\ deleted = NoDeletion

\* The memory a user gives the mysqld container: none, below, at and just
\* above 128 MiB, 256 MiB, and a quantity whose seven tenths reach 180 MiB
\* while seven times its tenth does not.
Memories == {0, 100 * MiB, 128 * MiB, 128 * MiB + 1, 256 * MiB, 269633829}

\* The data of the ConfigMaps of the users: a key of the defaults, the key of
\* the tuning, a key of the constants, and two of them together.
UserConfs ==
    {[max_connections |-> Str5000],
     [innodb_buffer_pool_size |-> Str64M],
     [datadir |-> TmpDir],
     [max_connections |-> Str5000, datadir |-> TmpDir]}

\* Clusters with the memory of the mysqld container and the user's ConfigMap
\* drawn from these.
InitGenerate ==
    /\ \E requests \in Memories, limits \in Memories, userConf \in UserConfs,
          name \in {<<>>, UserConfigMapName} :
         objs = MapPut(MapPut(EmptyMap, ClusterId(Key),
                              NewCluster([MinimalSpec EXCEPT
                                             !.requestsMemory = requests,
                                             !.limitsMemory = limits,
                                             !.mysqlConfigMapName = name])),
                       ConfigMapId(Key, UserConfigMapName),
                       [data |-> userConf, labels |-> EmptyMap, owner |-> "none"])
    /\ cluster = NoCluster
    /\ entry = NoCluster
    /\ pc = "idle"
    /\ reconciler = 0
    /\ mycnf = <<>>
    /\ calls = <<>>
    /\ steps = <<>>
    /\ result = "none"
    /\ errStep = ""
    /\ quiet = FALSE
    /\ wasQuiet = FALSE
    /\ envOps = 0
    /\ operator = Operator(1)
    /\ faults = FALSE
    /\ entryObjs = EmptyMap
    /\ dirty = {}
    /\ running = [k \in Requests |-> 0]
    /\ deleted = NoDeletion

-----------------------------------------------------------------------------
(* Reconcile *)

HighestVersion == 1

\* A dispatcher that takes the version after the highest one, pinned or not.
DispatchNext(c) == HighestVersion + 1

\* The reconciler version Reconcile selects for the fetched cluster.
Dispatch(c) ==
    IF c.status.reconcileInfo.generation = c.generation \/ c.deletionTimestamp
    THEN CASE c.status.reconcileInfo.reconcileVersion = 0 -> HighestVersion
           [] c.status.reconcileInfo.reconcileVersion = 1 -> 1
           [] OTHER -> HighestVersion
    ELSE HighestVersion

\* The call of a step that fails: none (0), or any of its calls, at most
\* `most`, where faults are injected.
FailureAt(most) == IF faults THEN 0..most ELSE {0}

\* The run returns: err tells whether with an error.
Returns(step, err) ==
    /\ pc' = "done"
    /\ result' = IF err THEN "error" ELSE "ok"
    /\ errStep' = IF err THEN step ELSE ""

\* Reconcile up to the call of the selected reconciler.
\* A Reconcile that returns the NotFound of the fetch as an error, without Stop.
ReconcileNotFoundReturned ==
    /\ pc = "idle"
    /\ \E f \in FailureAt(1) :
         LET g == ApiGet(St0(objs, f, "Reconcile"), ClusterId(Key)) IN
         /\ steps' = <<>>
         /\ entryObjs' = objs
         /\ wasQuiet' = quiet
         /\ quiet' = FALSE
         /\ UNCHANGED <<objs, mycnf, envOps, operator, faults, dirty, running, deleted>>
         /\ IF g.err
            THEN /\ calls' = g.calls
                 /\ Returns("Reconcile", TRUE)
                 /\ UNCHANGED <<cluster, entry, reconciler>>
            ELSE IF ~Exists(g, ClusterId(Key))
            THEN /\ calls' = g.calls
                 /\ Returns("Reconcile", TRUE)
                 /\ UNCHANGED <<cluster, entry, reconciler>>
            ELSE /\ calls' = g.calls
                 /\ cluster' = objs[ClusterId(Key)]
                 /\ entry' = objs[ClusterId(Key)]
                 /\ reconciler' = Dispatch(objs[ClusterId(Key)])
                 /\ pc' = "reconcileV1"
                 /\ result' = "none"
                 /\ errStep' = ""

Reconcile ==
    /\ pc = "idle"
    /\ \E f \in FailureAt(1) :
         LET g == ApiGet(St0(objs, f, "Reconcile"), ClusterId(Key)) IN
         /\ steps' = <<>>
         /\ entryObjs' = objs
         /\ wasQuiet' = quiet
         /\ quiet' = FALSE
         /\ UNCHANGED <<objs, mycnf, envOps, operator, faults, dirty, running, deleted>>
         /\ IF g.err
            THEN /\ calls' = g.calls
                 /\ Returns("Reconcile", TRUE)
                 /\ UNCHANGED <<cluster, entry, reconciler>>
            ELSE IF ~Exists(g, ClusterId(Key))
            THEN /\ calls' = Noted(g, "Stop", ClusterId(Key)).calls
                 /\ Returns("Reconcile", FALSE)
                 /\ UNCHANGED <<cluster, entry, reconciler>>
            ELSE /\ calls' = g.calls
                 /\ cluster' = objs[ClusterId(Key)]
                 /\ entry' = objs[ClusterId(Key)]
                 /\ reconciler' = Dispatch(objs[ClusterId(Key)])
                 /\ pc' = "reconcileV1"
                 /\ result' = "none"
                 /\ errStep' = ""

\* reconcileV1 on a cluster with a deletionTimestamp.
Finalize ==
    /\ pc = "reconcileV1"
    /\ cluster.deletionTimestamp
    /\ UNCHANGED <<steps, mycnf, reconciler, entry, wasQuiet, quiet, envOps, operator, faults, entryObjs, dirty, running, deleted>>
    /\ IF ~cluster.finalizer
       THEN /\ Returns("Finalize", FALSE)
            /\ UNCHANGED <<objs, calls, cluster>>
       ELSE \E f \in FailureAt(3) :
            LET s0 == Noted(St0(objs, f, "Finalize"), "Stop", ClusterId(cluster))
                fin == finalizeV1(s0, cluster)
                removed == [cluster EXCEPT !.finalizer = FALSE]
                upd == ApiUpdateCluster(fin, removed)
            IN /\ objs' = upd.objs
               /\ calls' = calls \o upd.calls
               /\ cluster' = IF fin.err THEN cluster ELSE removed
               /\ Returns("Finalize", upd.err)

\* The end of a step that logs the error and goes on.
StepEndsGoingOn(st, step, next) ==
    /\ objs' = st.objs
    /\ calls' = calls \o st.calls
    /\ steps' = Append(steps, step)
    /\ pc' = next
    /\ result' = IF st.err THEN "error" ELSE result
    /\ errStep' = IF st.err /\ errStep = "" THEN step ELSE errStep

\* The end of a step of reconcileV1: on an error the run returns it,
\* otherwise the next step runs.
StepEnds(st, step, next) ==
    /\ objs' = st.objs
    /\ calls' = calls \o st.calls
    /\ steps' = Append(steps, step)
    /\ IF st.err
       THEN Returns(step, TRUE)
       ELSE /\ pc' = next
            /\ UNCHANGED <<result, errStep>>

\* The first step, taken whether the cluster is being deleted or not.
SecretWhileDeleting ==
    /\ pc = "reconcileV1"
    /\ \E f \in FailureAt(5), seed \in Seeds :
         StepEnds(reconcileV1Secret(St0(objs, f, "Secret"), cluster, seed),
                  "Secret", "Certificate")
    /\ UNCHANGED <<cluster, mycnf, reconciler, entry, wasQuiet, quiet, envOps, operator,
                   faults, entryObjs, dirty, running, deleted>>

Secret ==
    /\ pc = "reconcileV1"
    /\ ~cluster.deletionTimestamp
    /\ \E f \in FailureAt(5), seed \in Seeds :
         StepEnds(reconcileV1Secret(St0(objs, f, "Secret"), cluster, seed),
                  "Secret", "Certificate")
    /\ UNCHANGED <<cluster, mycnf, reconciler, entry, wasQuiet, quiet, envOps, operator, faults, entryObjs, dirty, running, deleted>>

Certificate ==
    /\ pc = "Certificate"
    /\ \E f \in FailureAt(2) :
         StepEnds(reconcileV1Certificate(St0(objs, f, "Certificate"), cluster),
                  "Certificate", "GRPCSecret")
    /\ UNCHANGED <<cluster, mycnf, reconciler, entry, wasQuiet, quiet, envOps, operator, faults, entryObjs, dirty, running, deleted>>

GRPCSecret ==
    /\ pc = "GRPCSecret"
    /\ \E f \in FailureAt(3) :
         StepEnds(reconcileV1GRPCSecret(St0(objs, f, "GRPCSecret"), cluster),
                  "GRPCSecret", "MyCnf")
    /\ UNCHANGED <<cluster, mycnf, reconciler, entry, wasQuiet, quiet, envOps, operator, faults, entryObjs, dirty, running, deleted>>

MyCnf ==
    /\ pc = "MyCnf"
    /\ \E f \in FailureAt(6) :
         LET st == reconcileV1MyCnf(St0(objs, f, "MyCnf"), cluster) IN
         /\ StepEnds(st, "MyCnf", "FluentBitConfigMap")
         /\ mycnf' = st.ret
    /\ UNCHANGED <<cluster, reconciler, entry, wasQuiet, quiet, envOps, operator, faults, entryObjs, dirty, running, deleted>>

FluentBitConfigMap ==
    /\ pc = "FluentBitConfigMap"
    /\ \E f \in FailureAt(2) :
         StepEnds(reconcileV1FluentBitConfigMap(St0(objs, f, "FluentBitConfigMap"),
                                                cluster),
                  "FluentBitConfigMap", "ServiceAccount")
    /\ UNCHANGED <<cluster, mycnf, reconciler, entry, wasQuiet, quiet, envOps, operator, faults, entryObjs, dirty, running, deleted>>

ServiceAccount ==
    /\ pc = "ServiceAccount"
    /\ \E f \in FailureAt(2) :
         StepEnds(reconcileV1ServiceAccount(St0(objs, f, "ServiceAccount"), cluster),
                  "ServiceAccount", "Service")
    /\ UNCHANGED <<cluster, mycnf, reconciler, entry, wasQuiet, quiet, envOps, operator, faults, entryObjs, dirty, running, deleted>>

Service ==
    /\ pc = "Service"
    /\ \E f \in FailureAt(6) :
         StepEnds(reconcileV1Service(St0(objs, f, "Service"), cluster),
                  "Service", "StatefulSet")
    /\ UNCHANGED <<cluster, mycnf, reconciler, entry, wasQuiet, quiet, envOps, operator, faults, entryObjs, dirty, running, deleted>>

StatefulSet ==
    /\ pc = "StatefulSet"
    /\ \E f \in FailureAt(2) :
         StepEnds(reconcileV1StatefulSet(St0(objs, f, "StatefulSet"), cluster,
                                         operator, mycnf),
                  "StatefulSet", "PDB")
    /\ UNCHANGED <<cluster, mycnf, reconciler, entry, wasQuiet, quiet, envOps, operator, faults, entryObjs, dirty, running, deleted>>

PDB ==
    /\ pc = "PDB"
    /\ \E f \in FailureAt(2) :
         StepEnds(reconcileV1PDB(St0(objs, f, "PDB"), cluster), "PDB", "BackupJob")
    /\ UNCHANGED <<cluster, mycnf, reconciler, entry, wasQuiet, quiet, envOps, operator, faults, entryObjs, dirty, running, deleted>>

BackupJob ==
    /\ pc = "BackupJob"
    /\ \E f \in FailureAt(7) :
         StepEnds(reconcileV1BackupJob(St0(objs, f, "BackupJob"), cluster, operator),
                  "BackupJob", "RestoreJob")
    /\ UNCHANGED <<cluster, mycnf, reconciler, entry, wasQuiet, quiet, envOps, operator, faults, entryObjs, dirty, running, deleted>>

RestoreJob ==
    /\ pc = "RestoreJob"
    /\ \E f \in FailureAt(6) :
         StepEnds(reconcileV1RestoreJob(St0(objs, f, "RestoreJob"), cluster, operator),
                  "RestoreJob", "Status")
    /\ UNCHANGED <<cluster, mycnf, reconciler, entry, wasQuiet, quiet, envOps, operator, faults, entryObjs, dirty, running, deleted>>

\* The end of reconcileV1: the status write when the generation has moved,
\* then ClusterManager.Update.
\* A Status step that calls ClusterManager.Update whether the status write
\* succeeded or not.
StatusUpdatingAnyway ==
    /\ pc = "Status"
    /\ UNCHANGED <<steps, mycnf, reconciler, entry, wasQuiet, quiet, envOps, operator,
                   faults, entryObjs, dirty, running, deleted>>
    /\ \E f \in FailureAt(1) :
         LET w == updateReconcileInfo(St0(objs, f, "Status"), cluster)
             u == Noted([w EXCEPT !.err = FALSE], "Update", ClusterId(cluster))
         IN /\ objs' = u.objs
            /\ calls' = calls \o u.calls
            /\ cluster' = w.ret
            /\ Returns("Status", w.err)

Status ==
    /\ pc = "Status"
    /\ UNCHANGED <<steps, mycnf, reconciler, entry, wasQuiet, quiet, envOps, operator,
                   faults, entryObjs, dirty, running, deleted>>
    /\ \E f \in FailureAt(1) :
         LET w == updateReconcileInfo(St0(objs, f, "Status"), cluster)
             u == Noted(w, "Update", ClusterId(cluster))
         IN /\ objs' = u.objs
            /\ calls' = calls \o u.calls
            /\ cluster' = w.ret
            /\ Returns("Status", u.err)

\* The work queue takes the result; the locals of the run are gone.
Return ==
    /\ pc = "done"
    /\ pc' = "idle"
    /\ quiet' = (result = "ok" /\ errStep = "" /\ steps # <<>>)
    /\ wasQuiet' = FALSE
    /\ cluster' = NoCluster
    /\ entry' = NoCluster
    /\ reconciler' = 0
    /\ mycnf' = <<>>
    /\ calls' = <<>>
    /\ steps' = <<>>
    /\ result' = "none"
    /\ errStep' = ""
    /\ entryObjs' = EmptyMap
    /\ deleted' = NoDeletion
    /\ UNCHANGED <<objs, envOps, operator, faults, dirty, running>>

-----------------------------------------------------------------------------
(* The environment: events between two runs *)

Live == objs[ClusterId(Key)]

ClusterExists == ClusterId(Key) \in DOMAIN objs

Event ==
    /\ pc = "idle"
    /\ envOps < MaxEnvOps
    /\ envOps' = envOps + 1
    /\ quiet' = FALSE
    /\ UNCHANGED <<cluster, pc, reconciler, mycnf, calls, steps, result, errStep, entry,
                   wasQuiet, entryObjs, dirty, running>>

\* The spec with one field changed by the user.
Toggle(spec, field) ==
    CASE field = "requestsMemory" ->
            [spec EXCEPT !.requestsMemory = IF @ = 0 THEN Mem256Mi ELSE 0]
      [] field = "replicas" ->
            [spec EXCEPT !.replicas = IF @ = 3 THEN 2 ELSE 3]
      [] field = "backupPolicyName" ->
            [spec EXCEPT !.backupPolicyName = IF @ = <<>> THEN BackupPolicyName ELSE <<>>]
      [] field = "mysqlConfigMapName" ->
            [spec EXCEPT !.mysqlConfigMapName = IF @ = <<>> THEN UserConfigMapName ELSE <<>>]
      [] field = "disableSlowQueryLogContainer" ->
            [spec EXCEPT !.disableSlowQueryLogContainer = ~@]
      [] field = "mysqld" ->
            [spec EXCEPT !.mysqld = ~@]
      [] field = "podTemplateLabels" ->
            [spec EXCEPT !.podTemplateLabels =
                IF "LabelMocoRole" \in DOMAIN @ THEN TeamLabels
                ELSE MapPut(@, "LabelMocoRole", <<"primary">>)]
      [] field = "volumeClaimTemplates" ->
            [spec EXCEPT !.volumeClaimTemplates =
                IF Len(@) = 1 THEN Append(@, "tmp") ELSE <<"mysql-data">>]

SpecFields ==
    {"requestsMemory", "replicas", "backupPolicyName", "mysqlConfigMapName",
     "disableSlowQueryLogContainer", "mysqld", "podTemplateLabels",
     "volumeClaimTemplates"}

\* The fields the my.cnf is rendered from.
MyCnfFields == {"requestsMemory", "mysqlConfigMapName"}

\* The user edits one of the fields: the API server bumps the generation.
Edit(fields) ==
    /\ Event
    /\ ClusterExists
    /\ ~Live.deletionTimestamp
    /\ Live.generation < MaxGeneration
    /\ \E field \in fields :
         objs' = [objs EXCEPT ![ClusterId(Key)].spec = Toggle(@, field),
                              ![ClusterId(Key)].generation = @ + 1]
    /\ UNCHANGED <<operator, faults, deleted>>

EditSpec == Edit(SpecFields)

EditMyCnfSpec == Edit(MyCnfFields)

ScaleCluster == Edit({"replicas"})

\* The user deletes the cluster, in the background or in the foreground.
DeleteCluster ==
    /\ Event
    /\ ClusterExists
    /\ ~Live.deletionTimestamp
    /\ \E foreground \in BOOLEAN :
         objs' = [objs EXCEPT ![ClusterId(Key)].deletionTimestamp = TRUE,
                              ![ClusterId(Key)].foregroundDeletion = foreground]
    /\ UNCHANGED <<operator, faults, deleted>>

\* Somebody deletes an object other than the cluster.
ExternalDelete ==
    /\ Event
    /\ \E id \in DOMAIN objs \ {ClusterId(Key)} :
         /\ objs' = MapDel(objs, id)
         /\ deleted' = IF quiet
                       THEN [id |-> id, before |-> objs, operator |-> operator]
                       ELSE NoDeletion
    /\ UNCHANGED <<operator, faults>>

\* Somebody overwrites the data of a derivative secret.
TamperSecret ==
    /\ Event
    /\ \/ /\ UserSecretId(Key) \in DOMAIN objs
          /\ objs' = [objs EXCEPT ![UserSecretId(Key)].data =
                                     ToSecretData(NewMySQLPassword(0))]
       \/ /\ MyCnfSecretId(Key) \in DOMAIN objs
          /\ objs' = [objs EXCEPT ![MyCnfSecretId(Key)].data =
                                     ToMyCnfSecretData(NewMySQLPassword(0))]
    /\ UNCHANGED <<operator, faults, deleted>>

\* The user changes the ConfigMap the cluster's spec may refer to.
PutUserConfigMap ==
    /\ Event
    /\ \E value \in {Str5000, Str100000} :
         /\ objs' = MapPut(objs, ConfigMapId(Key, UserConfigMapName), UserConfigMap(value))
         /\ objs' # objs
    /\ UNCHANGED <<operator, faults, deleted>>

\* cert-manager issues the certificate: its secret appears.
IssueCertificate ==
    /\ Event
    /\ CertificateId(Key) \in DOMAIN objs
    /\ CertSecretId(Key) \notin DOMAIN objs
    /\ objs' = MapPut(objs, CertSecretId(Key),
                      [data |-> [k \in {"tls.crt"} |-> <<"issued">>],
                       labels |-> EmptyMap, owner |-> "none"])
    /\ UNCHANGED <<operator, faults, deleted>>

\* The restore Job finishes and records the time in the cluster's status.
RestoreFinished ==
    /\ pc = "idle"
    /\ ClusterExists
    /\ RestoreJobId(Key) \in DOMAIN objs
    /\ ~Live.status.restoredTime
    /\ objs' = [objs EXCEPT ![ClusterId(Key)].status.restoredTime = TRUE]
    /\ quiet' = FALSE
    /\ UNCHANGED <<cluster, pc, reconciler, mycnf, calls, steps, result, errStep, entry,
                   wasQuiet, envOps, operator, faults, entryObjs, dirty, running, deleted>>

\* The objects of the restore step.
RestoreObjects(c) == {RestoreJobId(c), RestoreRoleId(c), RestoreRoleBindingId(c)}

\* The Job controller records the end of the restore Job.
JobEnds ==
    /\ pc = "idle"
    /\ RestoreJobId(Key) \in DOMAIN objs
    /\ objs[RestoreJobId(Key)].data.conditions = <<>>
    /\ \E condition \in {"Complete", "Failed"} :
         objs' = [objs EXCEPT ![RestoreJobId(Key)].data.conditions = <<condition>>]
    /\ quiet' = FALSE
    /\ deleted' = NoDeletion
    /\ UNCHANGED <<cluster, pc, reconciler, mycnf, calls, steps, result, errStep, entry,
                   wasQuiet, envOps, operator, faults, entryObjs, dirty, running>>

\* Somebody deletes an object of the restore step.
DeleteRestoreObject ==
    /\ pc = "idle"
    /\ \E id \in RestoreObjects(Key) \cap DOMAIN objs :
         objs' = MapDel(objs, id)
    /\ quiet' = FALSE
    /\ deleted' = NoDeletion
    /\ UNCHANGED <<cluster, pc, reconciler, mycnf, calls, steps, result, errStep, entry,
                   wasQuiet, envOps, operator, faults, entryObjs, dirty, running>>

\* A port a user declares in a ServiceTemplate.
TemplatePort(name, port, nodePort) ==
    [name |-> name, protocol |-> "TCP", port |-> port, targetPort |-> "user",
     nodePort |-> nodePort]

\* The ServiceTemplates of the users: one without ports, one with a port of
\* its own, and two with a port named mysql on another number, the nodePort
\* left out or given.
ServiceTemplates ==
    {[ports |-> <<>>, labels |-> EmptyMap],
     [ports |-> <<TemplatePort("extra", 9999, NilNodePort)>>, labels |-> EmptyMap],
     [ports |-> <<TemplatePort("mysql", 8888, NilNodePort)>>, labels |-> EmptyMap],
     [ports |-> <<TemplatePort("mysql", 8888, 30001)>>, labels |-> EmptyMap]}

TemplateFields == {"primaryServiceTemplate", "replicaServiceTemplate"}

\* The user sets a ServiceTemplate.
EditServiceTemplate ==
    /\ Event
    /\ ClusterExists
    /\ ~Live.deletionTimestamp
    /\ Live.generation < MaxGeneration
    /\ \E field \in TemplateFields, template \in ServiceTemplates :
         objs' = [objs EXCEPT ![ClusterId(Key)].spec[field] = template,
                              ![ClusterId(Key)].generation = @ + 1]
    /\ UNCHANGED <<operator, faults, deleted>>

\* The primary and the replica Service with the template that shapes each.
TemplatedServices(c) ==
    {<<ServiceId(c, PrimaryServiceName(c)), "primaryServiceTemplate">>,
     <<ServiceId(c, ReplicaServiceName(c)), "replicaServiceTemplate">>}

\* The first nodePort of the range the API server allocates from.
NodePortBase == 30000

\* The API server assigns a nodePort to every port of a Service that has none;
\* only a template can ask for a type of Service with nodePorts.
AllocateNodePorts ==
    /\ pc = "idle"
    /\ ClusterExists
    /\ \E s \in TemplatedServices(Key) :
         /\ s[1] \in DOMAIN objs
         /\ Live.spec[s[2]] # <<>>
         /\ objs' = [objs EXCEPT ![s[1]].data.ports =
                        [i \in DOMAIN @ |->
                            IF @[i].nodePort <= 0
                            THEN [@[i] EXCEPT !.nodePort = NodePortBase + i]
                            ELSE @[i]]]
         /\ objs' # objs
    /\ quiet' = FALSE
    /\ deleted' = NoDeletion
    /\ UNCHANGED <<cluster, pc, reconciler, mycnf, calls, steps, result, errStep, entry,
                   wasQuiet, envOps, operator, faults, entryObjs, dirty, running>>

\* The operator is restarted with other images.
UpgradeOperator ==
    /\ Event
    /\ operator = Operator(1)
    /\ operator' = Operator(2)
    /\ UNCHANGED <<objs, faults, deleted>>

\* The garbage collector: the children of an owner that is gone or in a
\* foreground deletion go, and with them the foreground finalizer.
Orphans ==
    {id \in DOMAIN objs \ {ClusterId(Key)} :
        \/ /\ objs[id].owner = "cluster"
           /\ \/ ~ClusterExists
              \/ Live.deletionTimestamp /\ Live.foregroundDeletion
        \/ objs[id].owner = "job" /\ RestoreJobId(Key) \notin DOMAIN objs}

GarbageCollect ==
    /\ pc = "idle"
    /\ \/ Orphans # {}
       \/ ClusterExists /\ Live.deletionTimestamp /\ Live.foregroundDeletion
    /\ LET kept == [id \in DOMAIN objs \ Orphans |-> objs[id]] IN
       objs' = IF ClusterExists /\ Live.deletionTimestamp /\ Live.foregroundDeletion
               THEN IF Live.finalizer
                    THEN kept
                    ELSE MapDel(kept, ClusterId(Key))
               ELSE kept
    /\ objs' # objs
    /\ quiet' = FALSE
    /\ UNCHANGED <<cluster, pc, reconciler, mycnf, calls, steps, result, errStep, entry,
                   wasQuiet, envOps, operator, faults, entryObjs, dirty, running, deleted>>

-----------------------------------------------------------------------------

\* A stray ConfigMap whose name has the prefix of the cluster's my.cnf
\* ConfigMaps appears.
StrayConfigMap ==
    /\ Event
    /\ ConfigMapId(Key, PrefixedName(Key) \o <<".", "stray">>) \notin DOMAIN objs
    /\ objs' = MapPut(objs, ConfigMapId(Key, PrefixedName(Key) \o <<".", "stray">>),
                      [data |-> [k \in {"my.cnf"} |-> SectionBytes],
                       labels |-> EmptyMap, owner |-> "none"])
    /\ UNCHANGED <<operator, faults, deleted>>

\* Somebody overwrites the text of a my.cnf ConfigMap of the cluster.
TamperMyCnf ==
    /\ Event
    /\ \E id \in OldMyCnfs(objs, Key, <<>>) :
         /\ objs' = [objs EXCEPT ![id].data = [k \in {"my.cnf"} |-> SectionBytes]]
         /\ objs' # objs
    /\ UNCHANGED <<operator, faults, deleted>>

\* Somebody deletes one of the three secrets of the credentials.
\* The objects the backup step reads or owns.
BackupObjects(c) == {CronJobId(c), BackupRoleId(c), BackupRoleBindingId(c)}

\* Somebody deletes a backup object of the cluster, the backup policy or the
\* user's ConfigMap.
DeleteBackupObject ==
    /\ pc = "idle"
    /\ \E id \in (BackupObjects(Key) \cup {Id("BackupPolicy", Key.namespace, BackupPolicyName),
                                          ConfigMapId(Key, UserConfigMapName)})
                    \cap DOMAIN objs :
         objs' = MapDel(objs, id)
    /\ quiet' = FALSE
    /\ deleted' = NoDeletion
    /\ UNCHANGED <<cluster, pc, reconciler, mycnf, calls, steps, result, errStep, entry,
                   wasQuiet, envOps, operator, faults, entryObjs, dirty, running>>

BackupFields == {"backupPolicyName"}

EditBackupSpec == Edit(BackupFields)

DeleteSecret ==
    /\ Event
    /\ \E id \in {MasterId(Key), UserSecretId(Key), MyCnfSecretId(Key)} \cap DOMAIN objs :
         objs' = MapDel(objs, id)
    /\ UNCHANGED <<operator, faults, deleted>>

-----------------------------------------------------------------------------
(* The work queue *)

\* The controller built by SetupWithManager: a work queue of request keys and
\* MaxConcurrentReconciles workers, each taking a key, calling Reconcile and
\* marking the key done.

\* The number of Reconcile calls that are running.
RECURSIVE Total(_, _)
Total(count, keys) ==
    IF keys = {} THEN 0
    ELSE LET k == CHOOSE x \in keys : TRUE
         IN count[k] + Total(count, keys \ {k})

Reconciling == Total(running, Requests)

\* A watch event of the cluster, of a child it owns, of its certificate, of
\* the ConfigMap or of the BackupPolicy it names: its handler adds the
\* cluster's key, which the queue holds once however often it is added.
Enqueue ==
    /\ \E k \in Requests : dirty' = dirty \cup {k}
    /\ dirty' # dirty
    /\ UNCHANGED <<objs, cluster, pc, reconciler, mycnf, calls, steps, result, errStep,
                   entry, quiet, wasQuiet, envOps, operator, faults, entryObjs, running,
                   deleted>>

\* A queue that hands out every waiting key.
ReadyWhileRunning(waiting, count) == waiting

\* The keys a worker may take: a key that is being reconciled stays in the
\* queue until that call is done.
Ready(waiting, count) == {k \in waiting : count[k] = 0}

\* An idle worker takes a key and calls Reconcile.
Get ==
    /\ Reconciling < MaxConcurrentReconciles
    /\ \E k \in Ready(dirty, running) :
         /\ dirty' = dirty \ {k}
         /\ running' = [running EXCEPT ![k] = @ + 1]
    /\ UNCHANGED <<objs, cluster, pc, reconciler, mycnf, calls, steps, result, errStep,
                   entry, quiet, wasQuiet, envOps, operator, faults, entryObjs, deleted>>

\* Reconcile returns: the worker marks the key done, and adds it again when
\* Reconcile returned an error.
Done ==
    /\ \E k \in Requests, requeue \in BOOLEAN :
         /\ running[k] > 0
         /\ running' = [running EXCEPT ![k] = @ - 1]
         /\ dirty' = IF requeue THEN dirty \cup {k} ELSE dirty
    /\ UNCHANGED <<objs, cluster, pc, reconciler, mycnf, calls, steps, result, errStep,
                   entry, quiet, wasQuiet, envOps, operator, faults, entryObjs, deleted>>

-----------------------------------------------------------------------------
(* Specifications *)

\* One run of Reconcile, step by step.
Run ==
    \/ Reconcile
    \/ Finalize
    \/ Secret
    \/ Certificate
    \/ GRPCSecret
    \/ MyCnf
    \/ FluentBitConfigMap
    \/ ServiceAccount
    \/ Service
    \/ StatefulSet
    \/ PDB
    \/ BackupJob
    \/ RestoreJob
    \/ Status
    \/ Return

\* Every event of the environment, with API calls that succeed.
Next ==
    \/ Run
    \/ EditSpec
    \/ DeleteCluster
    \/ ExternalDelete
    \/ TamperSecret
    \/ PutUserConfigMap
    \/ StrayConfigMap
    \/ IssueCertificate
    \/ RestoreFinished
    \/ UpgradeOperator
    \/ GarbageCollect

Spec == Init /\ [][Next]_vars

\* The life of the cluster, with API calls that may fail.
NextLife ==
    \/ Run
    \/ ScaleCluster
    \/ DeleteCluster
    \/ GarbageCollect

SpecLife == InitFaulty /\ [][NextLife]_vars

\* The credentials, with API calls that may fail.
NextSecrets ==
    \/ Run
    \/ DeleteSecret
    \/ TamperSecret
    \/ DeleteCluster

SpecSecrets == InitFaulty /\ [][NextSecrets]_vars

\* The my.cnf ConfigMaps, with API calls that may fail and nobody but the
\* reconciler deleting an object other than the cluster.
NextMyCnf ==
    \/ Run
    \/ EditMyCnfSpec
    \/ PutUserConfigMap
    \/ StrayConfigMap
    \/ DeleteCluster

SpecMyCnf == InitFaulty /\ [][NextMyCnf]_vars

\* The content of the my.cnf ConfigMap, with API calls that may fail.
NextContent ==
    \/ Run
    \/ EditMyCnfSpec
    \/ TamperMyCnf
    \/ DeleteCluster

SpecContent == InitFaulty /\ [][NextContent]_vars

\* The backup policy and the user's ConfigMap come and go.
NextBackup ==
    \/ Run
    \/ EditBackupSpec
    \/ DeleteBackupObject
    \/ DeleteCluster

SpecBackup == InitFaulty /\ [][NextBackup]_vars

\* The restore Job runs, ends and is cleaned up.
NextRestore ==
    \/ Run
    \/ JobEnds
    \/ RestoreFinished
    \/ DeleteRestoreObject
    \/ DeleteCluster

SpecRestore == InitFaulty /\ [][NextRestore]_vars

\* The users shape the primary and the replica Service.
NextService ==
    \/ Run
    \/ EditServiceTemplate
    \/ AllocateNodePorts
    \/ DeleteCluster

SpecService == InitFaulty /\ [][NextService]_vars

\* Reconciles of clusters of every memory and user configuration.
NextGenerate ==
    \/ Run
    \/ DeleteCluster

SpecGenerate == InitGenerate /\ [][NextGenerate]_vars

\* The certificate watch.  Names are strings of characters here.
MaxNameLen == 5

MocoAgentPrefix == <<"m", "o", "c", "o", "-", "a", "g", "e", "n", "t", "-">>

\* The characters of the names: a letter and the dot.
NameChars == {"a", "."}

Strings(chars, n) == UNION {[1..k -> chars] : k \in 0..n}

\* The places of the dots of a string.
Dots(s) == {i \in DOMAIN s : s[i] = "."}

\* strings.SplitN(s, ".", 2)
SplitN2(s) ==
    IF Dots(s) = {} THEN <<s>>
    ELSE LET i == CHOOSE d \in Dots(s) : \A e \in Dots(s) : d <= e
         IN <<SubSeq(s, 1, i - 1), SubSeq(s, i + 1, Len(s))>>

\* A split at the last dot.
SplitAtLastDot(s) ==
    IF Dots(s) = {} THEN <<s>>
    ELSE LET i == CHOOSE d \in Dots(s) : \A e \in Dots(s) : d >= e
         IN <<SubSeq(s, 1, i - 1), SubSeq(s, i + 1, Len(s))>>

\* A handler that takes the cluster's name to have no dot.
certHandlerLastDot(namespace, name) ==
    IF namespace # SystemNamespace THEN {}
    ELSE IF ~IsPrefix(MocoAgentPrefix, name) THEN {}
    ELSE LET fields == SplitAtLastDot(SubSeq(name, Len(MocoAgentPrefix) + 1, Len(name)))
         IN IF Len(fields) # 2 THEN {}
            ELSE {[namespace |-> fields[1], name |-> fields[2]]}

\* The requests an event of a Certificate is mapped to.
certHandler(namespace, name) ==
    IF namespace # SystemNamespace THEN {}
    ELSE IF ~IsPrefix(MocoAgentPrefix, name) THEN {}
    ELSE LET fields == SplitN2(SubSeq(name, Len(MocoAgentPrefix) + 1, Len(name)))
         IN IF Len(fields) # 2 THEN {}
            ELSE {[namespace |-> fields[1], name |-> fields[2]]}

\* The names of the Certificates: the prefix, whole, cut short or missing,
\* and any string behind it.
CertificateNames ==
    {prefix \o rest :
        prefix \in {MocoAgentPrefix, SubSeq(MocoAgentPrefix, 1, Len(MocoAgentPrefix) - 1), <<>>},
        rest \in Strings(NameChars, MaxNameLen)}

\* One Certificate, in the operator's namespace or in another.
InitCertificate ==
    /\ \E namespace \in {SystemNamespace, Key.namespace}, name \in CertificateNames :
         objs = MapPut(EmptyMap, Id("Certificate", namespace, name),
                       [data |-> EmptyMap, labels |-> EmptyMap, owner |-> "none"])
    /\ cluster = NoCluster
    /\ entry = NoCluster
    /\ pc = "idle"
    /\ reconciler = 0
    /\ mycnf = <<>>
    /\ calls = <<>>
    /\ steps = <<>>
    /\ result = "none"
    /\ errStep = ""
    /\ quiet = FALSE
    /\ wasQuiet = FALSE
    /\ envOps = 0
    /\ operator = Operator(1)
    /\ faults = FALSE
    /\ entryObjs = EmptyMap
    /\ dirty = {}
    /\ running = [k \in Requests |-> 0]
    /\ deleted = NoDeletion

\* An event of a Certificate reaches the watch: the requests it is mapped to
\* are added to the queue.
CertificateEvent ==
    /\ envOps < MaxEnvOps
    /\ envOps' = envOps + 1
    /\ \E id \in {i \in DOMAIN objs : KindOf(i) = "Certificate"} :
         dirty' = dirty \cup certHandler(NamespaceOf(id), NameOf(id))
    /\ UNCHANGED <<objs, cluster, pc, reconciler, mycnf, calls, steps, result, errStep,
                   entry, quiet, wasQuiet, operator, faults, entryObjs, running,
                   deleted>>

NextCertificate == CertificateEvent

SpecCertificate == InitCertificate /\ [][NextCertificate]_vars

\* The legacy controller (v1alpha1): the steps of reconcileInitialize, each
\* returning whether it has written something (st.ret) beside its error.
MaxCalls == 3

uniqueName(c) == c.name \o <<"-", c.uid>>

setLabels(name) ==
    [k \in {"app.kubernetes.io/name", "app.kubernetes.io/managed-by"} |->
        IF k = "app.kubernetes.io/name" THEN name ELSE <<"moco">>]

Returning(st, updated) == [st EXCEPT !.ret = updated /\ ~st.err]

\* A CreateOrUpdate that sends the update without comparing.
LegacyWriteAlways(g, id, data) ==
    LET old == IF Exists(g, id) THEN g.objs[id] ELSE ZeroObj
        m == SetControllerReference("cluster",
                 [old EXCEPT !.labels = setLabels(NameOf(id)), !.data = data])
    IN IF g.err THEN Returning(g, FALSE)
       ELSE IF ~m.ok THEN Returning(Fail(g), FALSE)
       ELSE IF ~Exists(g, id) THEN Returning(ApiCreate(g, id, m.obj), TRUE)
       ELSE Returning(ApiUpdate(g, id, m.obj), TRUE)

\* ctrl.CreateOrUpdate after its Get, with the mutate functions of the legacy
\* steps: setLabels, the data, SetControllerReference; the result is
\* OperationResultNone when the mutated object equals the fetched one.
LegacyWrite(g, id, data) ==
    LET old == IF Exists(g, id) THEN g.objs[id] ELSE ZeroObj
        m == SetControllerReference("cluster",
                 [old EXCEPT !.labels = setLabels(NameOf(id)), !.data = data])
    IN IF g.err THEN Returning(g, FALSE)
       ELSE IF ~m.ok THEN Returning(Fail(g), FALSE)
       ELSE IF ~Exists(g, id) THEN Returning(ApiCreate(g, id, m.obj), TRUE)
       ELSE IF m.obj = old THEN Returning(g, FALSE)
       ELSE Returning(ApiUpdate(g, id, m.obj), TRUE)

LegacyCreateOrUpdate(st, id, data) == LegacyWrite(ApiGet(st, id), id, data)

RootPasswordSecretId(c) == Id("Secret", c.namespace, c.spec.rootPasswordSecretName)
InitSecretId(c) == Id("Secret", c.namespace, <<"root-password-">> \o uniqueName(c))

\* A createSecretIfNotExist that tests the init Secret and creates it anew.
createSecretIfNotExistRecreating(st, c, seed) ==
    LET g == ApiGet(st, InitSecretId(c)) IN
    IF g.err \/ Exists(g, InitSecretId(c)) THEN Returning(g, FALSE)
    ELSE Returning(ApiCreate(g, InitSecretId(c),
                      [labels |-> setLabels(NameOf(InitSecretId(c))),
                       owner |-> "cluster",
                       data |-> [ROOT_PASSWORD |-> <<"pw", "root", seed>>,
                                 OPERATOR_PASSWORD |-> <<"pw", "operator", seed>>,
                                 REPLICATION_PASSWORD |-> <<"pw", "replication", seed>>,
                                 CLONE_DONOR_PASSWORD |-> <<"pw", "donor", seed>>,
                                 MISC_PASSWORD |-> <<"pw", "misc", seed>>]]),
                   TRUE)

createSecretIfNotExist(st, c, seed) ==
    LET g == ApiGet(st, MasterId(c)) IN
    IF g.err \/ Exists(g, MasterId(c)) THEN Returning(g, FALSE)
    ELSE
    LET named == c.spec.rootPasswordSecretName # <<>>
        r == IF named THEN ApiGet(g, RootPasswordSecretId(c)) ELSE g
    IN IF r.err THEN Returning(r, FALSE)
       ELSE IF named /\ ~Exists(r, RootPasswordSecretId(c)) THEN Returning(Fail(r), FALSE)
       ELSE
       LET given == IF named THEN r.objs[RootPasswordSecretId(c)].data.ROOT_PASSWORD
                    ELSE <<>>
           rootPass == IF given = <<>> THEN <<"pw", "root", seed>> ELSE given
           init == ApiCreate(r, InitSecretId(c),
                      [labels |-> setLabels(NameOf(InitSecretId(c))),
                       owner |-> "cluster",
                       data |-> [ROOT_PASSWORD |-> rootPass,
                                 OPERATOR_PASSWORD |-> <<"pw", "operator", seed>>,
                                 REPLICATION_PASSWORD |-> <<"pw", "replication", seed>>,
                                 CLONE_DONOR_PASSWORD |-> <<"pw", "donor", seed>>,
                                 MISC_PASSWORD |-> <<"pw", "misc", seed>>]])
       IN Returning(ApiCreate(init, MasterId(c),
                       [labels |-> EmptyMap,
                        owner |-> "none",
                        data |-> [OPERATOR_PASSWORD |-> <<"pw", "operator", seed>>,
                                  REPLICATION_PASSWORD |-> <<"pw", "replication", seed>>,
                                  CLONE_DONOR_PASSWORD |-> <<"pw", "donor", seed>>]]),
                    TRUE)

\* requests.memory of the mysqld container when given, else limits.memory.
getMysqldContainerRequests(c) ==
    IF c.spec.requestsMemory # 0 THEN c.spec.requestsMemory ELSE c.spec.limitsMemory

createOrUpdateConfigMap(st, c) ==
    LET id == ConfigMapId(c, uniqueName(c))
        g == ApiGet(st, id)
        named == c.spec.mysqlConfigMapName # <<>>
        userId == ConfigMapId(c, c.spec.mysqlConfigMapName)
        u == IF named THEN ApiGet(g, userId) ELSE g
    IN IF u.err THEN Returning(u, FALSE)
       ELSE IF named /\ ~Exists(u, userId) THEN Returning(Fail(u), FALSE)
       ELSE LegacyWrite(u, id,
               [k \in {"my.cnf"} |->
                   Generate(IF named THEN u.objs[userId].data ELSE EmptyMap,
                            getMysqldContainerRequests(c))])

createOrUpdateHeadlessService(st, c) ==
    LegacyCreateOrUpdate(st, ServiceId(c, uniqueName(c)),
        [clusterIP |-> "None", selector |-> setLabels(uniqueName(c))])

LegacyServiceAccountName(c) == <<"mysqld-sa-">> \o uniqueName(c)

createOrUpdateRBAC(st, c) ==
    IF c.spec.serviceAccountName # <<>> THEN Returning(st, FALSE)
    ELSE LegacyCreateOrUpdate(st, Id("ServiceAccount", c.namespace,
                                     LegacyServiceAccountName(c)), EmptyMap)

\* The pod template: the user's, with the service account forced.
makePodTemplate(c) ==
    [labels |-> setLabels(uniqueName(c)),
     serviceAccountName |-> LegacyServiceAccountName(c),
     terminationGracePeriodSeconds |-> 300]

createOrUpdateStatefulSet(st, c) ==
    LegacyCreateOrUpdate(st, Id("StatefulSet", c.namespace, uniqueName(c)),
        [replicas |-> c.spec.replicas,
         podManagementPolicy |-> "Parallel",
         serviceName |-> uniqueName(c),
         selector |-> setLabels(uniqueName(c)),
         template |-> makePodTemplate(c),
         volumeClaimTemplates |-> <<"mysql-data">>])

\* One CronJob per replica; the step has updated when one of them was written.
RECURSIVE createOrUpdateCronJobFrom(_, _, _, _)
createOrUpdateCronJobFrom(st, c, i, isUpdated) ==
    IF i >= c.spec.replicas \/ st.err THEN [st EXCEPT !.ret = isUpdated]
    ELSE LET podName == uniqueName(c) \o <<"-", i>>
             w == LegacyCreateOrUpdate(st, Id("CronJob", c.namespace, podName),
                      [schedule |-> c.spec.logRotationSchedule,
                       restartPolicy |-> "OnFailure",
                       command |-> <<"curl", "-sf">> \o podName])
         IN createOrUpdateCronJobFrom(w, c, i + 1, isUpdated \/ w.ret)

createOrUpdateCronJob(st, c) == createOrUpdateCronJobFrom(st, c, 0, FALSE)

LegacySteps ==
    {"createSecretIfNotExist", "createOrUpdateConfigMap", "createOrUpdateHeadlessService",
     "createOrUpdateRBAC", "createOrUpdateStatefulSet", "createOrUpdateCronJob"}

LegacyStep(step, st, c, seed) ==
    CASE step = "createSecretIfNotExist" -> createSecretIfNotExist(st, c, seed)
      [] step = "createOrUpdateConfigMap" -> createOrUpdateConfigMap(st, c)
      [] step = "createOrUpdateHeadlessService" -> createOrUpdateHeadlessService(st, c)
      [] step = "createOrUpdateRBAC" -> createOrUpdateRBAC(st, c)
      [] step = "createOrUpdateStatefulSet" -> createOrUpdateStatefulSet(st, c)
      [] step = "createOrUpdateCronJob" -> createOrUpdateCronJob(st, c)

\* The clusters given to the legacy steps.
LegacyClusters ==
    {[namespace |-> Key.namespace, name |-> Key.name, uid |-> "uid",
      spec |-> [replicas |-> replicas,
                serviceAccountName |-> serviceAccountName,
                mysqlConfigMapName |-> mysqlConfigMapName,
                rootPasswordSecretName |-> rootPasswordSecretName,
                requestsMemory |-> 0, limitsMemory |-> Mem256Mi,
                logRotationSchedule |-> "@daily"]] :
        replicas \in {1, 3},
        serviceAccountName \in {<<>>, <<"user-sa">>},
        mysqlConfigMapName \in {<<>>, UserConfigMapName},
        rootPasswordSecretName \in {<<>>, <<"root-pw">>}}

\* A fresh cluster: none of its objects exists; the user's ConfigMap and the
\* root password Secret are there or not.
InitLegacy ==
    /\ cluster \in LegacyClusters
    /\ \E others \in SUBSET {"ConfigMap", "Secret"} :
         objs = [id \in {ConfigMapId(Key, UserConfigMapName) : k \in others \cap {"ConfigMap"}}
                        \cup {Id("Secret", Key.namespace, <<"root-pw">>) :
                                 k \in others \cap {"Secret"}} |->
                    IF KindOf(id) = "ConfigMap" THEN UserConfigMap(Str5000)
                    ELSE [data |-> [ROOT_PASSWORD |-> <<"pw", "root", 0>>],
                          labels |-> EmptyMap, owner |-> "none"]]
    /\ entry = NoCluster
    /\ pc = "idle"
    /\ reconciler = 0
    /\ mycnf = <<>>
    /\ calls = <<>>
    /\ steps = <<>>
    /\ result = "none"
    /\ errStep = ""
    /\ quiet = FALSE
    /\ wasQuiet = FALSE
    /\ envOps = 0
    /\ operator = Operator(1)
    /\ faults = FALSE
    /\ entryObjs = EmptyMap
    /\ dirty = {}
    /\ running = [k \in Requests |-> 0]
    /\ deleted = NoDeletion

\* One call of a legacy step with the cluster: `steps` keeps what each call
\* has returned, `calls` the API calls of the last one.
LegacyCall ==
    /\ Len(steps) < MaxCalls
    /\ \E step \in LegacySteps, seed \in Seeds, f \in FailureAt(8) :
         LET st == LegacyStep(step, St0(objs, f, step), cluster, seed) IN
         /\ objs' = st.objs
         /\ calls' = st.calls
         /\ steps' = Append(steps, [step |-> step, updated |-> st.ret, err |-> st.err])
         /\ result' = IF st.err THEN "error" ELSE "ok"
    /\ entryObjs' = objs
    /\ UNCHANGED <<cluster, pc, reconciler, mycnf, errStep, entry, quiet, wasQuiet, envOps,
                   operator, faults, dirty, running, deleted>>

NextLegacy == LegacyCall

SpecLegacy == InitLegacy /\ [][NextLegacy]_vars

\* The start of the legacy steps: a fresh cluster out of `clusters`, the
\* user's ConfigMap and the root password Secret there or not, API calls
\* that may fail when `injected`.
LegacyStart(clusters, injected) ==
    /\ cluster \in clusters
    /\ \E others \in SUBSET {"ConfigMap", "Secret"} :
         objs = [id \in {ConfigMapId(Key, UserConfigMapName) : k \in others \cap {"ConfigMap"}}
                        \cup {Id("Secret", Key.namespace, <<"root-pw">>) :
                                 k \in others \cap {"Secret"}} |->
                    IF KindOf(id) = "ConfigMap" THEN UserConfigMap(Str5000)
                    ELSE [data |-> [ROOT_PASSWORD |-> <<"pw", "root", 0>>],
                          labels |-> EmptyMap, owner |-> "none"]]
    /\ entry = NoCluster
    /\ pc = "idle"
    /\ reconciler = 0
    /\ mycnf = <<>>
    /\ calls = <<>>
    /\ steps = <<>>
    /\ result = "none"
    /\ errStep = ""
    /\ quiet = FALSE
    /\ wasQuiet = FALSE
    /\ envOps = 0
    /\ operator = Operator(1)
    /\ faults = injected
    /\ entryObjs = EmptyMap
    /\ dirty = {}
    /\ running = [k \in Requests |-> 0]
    /\ deleted = NoDeletion

\* The clusters that differ in what createSecretIfNotExist reads.
LegacySecretClusters ==
    {c \in LegacyClusters : /\ c.spec.replicas = 1
                            /\ c.spec.serviceAccountName = <<>>
                            /\ c.spec.mysqlConfigMapName = <<>>}

InitLegacySecrets == LegacyStart(LegacySecretClusters, TRUE)

\* One call of createSecretIfNotExist, any one of its API calls failing or none.
LegacySecretCall ==
    /\ Len(steps) < MaxCalls
    /\ \E seed \in Seeds, f \in FailureAt(4) :
         LET st == createSecretIfNotExist(St0(objs, f, "createSecretIfNotExist"),
                                          cluster, seed) IN
         /\ objs' = st.objs
         /\ calls' = st.calls
         /\ steps' = Append(steps, [step |-> "createSecretIfNotExist",
                                    updated |-> st.ret, err |-> st.err])
         /\ result' = IF st.err THEN "error" ELSE "ok"
    /\ entryObjs' = objs
    /\ UNCHANGED <<cluster, pc, reconciler, mycnf, errStep, entry, quiet, wasQuiet, envOps,
                   operator, faults, dirty, running, deleted>>

\* Somebody deletes the init Secret or the controller's Secret between two calls.
DeleteLegacySecret ==
    /\ envOps < MaxEnvOps
    /\ envOps' = envOps + 1
    /\ \E id \in {InitSecretId(cluster), MasterId(cluster)} \cap DOMAIN objs :
         objs' = MapDel(objs, id)
    /\ result' = "none"
    /\ UNCHANGED <<cluster, pc, reconciler, mycnf, calls, steps, errStep, entry, quiet,
                   wasQuiet, operator, faults, entryObjs, dirty, running, deleted>>

NextLegacySecrets ==
    \/ LegacySecretCall
    \/ DeleteLegacySecret

SpecLegacySecrets == InitLegacySecrets /\ [][NextLegacySecrets]_vars

\* Reconciles alone, with API calls that may fail: the user scales or deletes
\* the cluster, nobody touches its children.
NextChildren ==
    \/ Run
    \/ ScaleCluster
    \/ DeleteCluster

SpecChildren == InitFaulty /\ [][NextChildren]_vars

\* Two clusters of one namespace, the name of the one a dotted extension of
\* the name of the other, and a ConfigMap of the user named like a my.cnf
\* ConfigMap of the first.
Neighbours ==
    {[namespace |-> Key.namespace, name |-> <<"a">>],
     [namespace |-> Key.namespace, name |-> <<"a", ".", "b">>]}

LookalikeConfigMapId == Id("ConfigMap", Key.namespace, <<"moco-", "a", ".", "conf">>)

InitNamespace ==
    /\ objs = [id \in {ClusterId(k) : k \in Neighbours} \cup {LookalikeConfigMapId} |->
                 IF id = LookalikeConfigMapId THEN UserConfigMap(Str5000)
                 ELSE [NewCluster(MinimalSpec) EXCEPT !.name = NameOf(id)]]
    /\ cluster = NoCluster
    /\ entry = NoCluster
    /\ pc = "idle"
    /\ reconciler = 0
    /\ mycnf = <<>>
    /\ calls = <<>>
    /\ steps = <<>>
    /\ result = "none"
    /\ errStep = ""
    /\ quiet = FALSE
    /\ wasQuiet = FALSE
    /\ envOps = 0
    /\ operator = Operator(1)
    /\ faults = TRUE
    /\ entryObjs = EmptyMap
    /\ dirty = {}
    /\ running = [k \in Requests |-> 0]
    /\ deleted = NoDeletion

\* reconcileV1MyCnf of one of the two clusters, from its first call to its
\* last; `cluster` is the cluster it has reconciled.
MyCnfOfNeighbour ==
    \E k \in Neighbours, f \in FailureAt(6) :
        LET c == objs[ClusterId(k)]
            st == reconcileV1MyCnf(St0(objs, f, "MyCnf"), c)
        IN /\ cluster' = c
           /\ entryObjs' = objs
           /\ objs' = st.objs
           /\ calls' = st.calls
           /\ steps' = <<"MyCnf">>
           /\ mycnf' = IF st.err THEN <<>> ELSE st.ret
           /\ result' = IF st.err THEN "error" ELSE "ok"
           /\ UNCHANGED <<pc, reconciler, errStep, entry, quiet, wasQuiet, envOps, operator,
                          faults, dirty, running, deleted>>

\* The user changes the memory of one of the two clusters: its my.cnf changes.
EditNeighbour ==
    /\ envOps < MaxEnvOps
    /\ envOps' = envOps + 1
    /\ \E k \in Neighbours :
         objs' = [objs EXCEPT ![ClusterId(k)].spec = Toggle(@, "requestsMemory"),
                              ![ClusterId(k)].generation = @ + 1]
    /\ cluster' = NoCluster
    /\ entryObjs' = EmptyMap
    /\ calls' = <<>>
    /\ steps' = <<>>
    /\ mycnf' = <<>>
    /\ result' = "none"
    /\ UNCHANGED <<pc, reconciler, errStep, entry, quiet, wasQuiet, operator, faults,
                   dirty, running, deleted>>

NextNamespace ==
    \/ MyCnfOfNeighbour
    \/ EditNeighbour

SpecNamespace == InitNamespace /\ [][NextNamespace]_vars

\* The credentials step retried.  A Secret of the name of a derivative may be
\* there before the first run: one without controller, or one that another
\* controller owns (the cluster of that name that was there before).
StaleSecret(id, owner) ==
    [data |-> IF id = UserSecretId(Key) THEN ToSecretData(NewMySQLPassword(0))
              ELSE ToMyCnfSecretData(NewMySQLPassword(0)),
     labels |-> EmptyMap,
     owner |-> owner]

InitSecretRetry ==
    /\ \E stale \in SUBSET {UserSecretId(Key), MyCnfSecretId(Key)},
          owner \in {"none", "other"} :
         objs = [id \in {ClusterId(Key)} \cup stale |->
                   IF id = ClusterId(Key) THEN NewCluster(MinimalSpec)
                   ELSE StaleSecret(id, owner)]
    /\ cluster = NewCluster(MinimalSpec)
    /\ entry = NoCluster
    /\ pc = "idle"
    /\ reconciler = 0
    /\ mycnf = <<>>
    /\ calls = <<>>
    /\ steps = <<>>
    /\ result = "none"
    /\ errStep = ""
    /\ quiet = FALSE
    /\ wasQuiet = FALSE
    /\ envOps = 0
    /\ operator = Operator(1)
    /\ faults = TRUE
    /\ entryObjs = EmptyMap
    /\ dirty = {}
    /\ running = [k \in Requests |-> 0]
    /\ deleted = NoDeletion

\* The calls of a step that may fail: any one while fewer than MaxEnvOps
\* calls have failed, none after that (the API calls succeed in the end).
\* envOps counts the calls that have failed.
FailureWhileLeft(most) == IF envOps < MaxEnvOps THEN 0..most ELSE {0}

Failed(st) == \E i \in DOMAIN st.calls : st.calls[i].res = "error"

\* A run draws a bundle only when there is no master secret.
SeedsDrawn == IF MasterId(Key) \in DOMAIN objs THEN {1} ELSE Seeds

\* One run of reconcileV1Secret, at any time: after an error, or on an event of
\* the cluster.
SecretRetry ==
    \E seed \in SeedsDrawn, f \in FailureWhileLeft(5) :
        \E st \in {reconcileV1Secret(St0(objs, f, "Secret"), cluster, seed)} :
        /\ objs' = st.objs
        /\ calls' = st.calls
        /\ entryObjs' = objs
        /\ steps' = <<"Secret">>
        /\ result' = IF st.err THEN "error" ELSE "ok"
        /\ envOps' = IF Failed(st) THEN envOps + 1 ELSE envOps
        /\ UNCHANGED <<cluster, pc, reconciler, mycnf, errStep, entry, quiet, wasQuiet,
                       operator, faults, dirty, running, deleted>>

NextSecretRetry == SecretRetry

\* The queue calls Reconcile again, with backoff, as long as it returns an
\* error; the first call follows the creation of the cluster.
RequeuedSecretRetry == result # "ok" /\ SecretRetry

SpecSecretRetry ==
    InitSecretRetry /\ [][NextSecretRetry]_vars /\ WF_vars(RequeuedSecretRetry)

\* The API calls succeed from now on.
ApiRecovers ==
    /\ faults
    /\ faults' = FALSE
    /\ UNCHANGED <<objs, cluster, pc, reconciler, mycnf, calls, steps, result, errStep,
                   entry, quiet, wasQuiet, envOps, operator, entryObjs, dirty, running,
                   deleted>>

\* The deletion of the cluster, with API calls that fail for a while.  The
\* queue hands every request to Reconcile in the end, and after an error again.
NextFinalize ==
    \/ Run
    \/ DeleteCluster
    \/ ApiRecovers

SpecFinalize ==
    /\ InitFaulty
    /\ [][NextFinalize]_vars
    /\ WF_vars(Reconcile)
    /\ WF_vars(Finalize)
    /\ WF_vars(Return)
    /\ WF_vars(ApiRecovers)

\* Labels a user puts on the pod template or on a ServiceTemplate: a key of
\* their own, a key of the label set of the cluster with another value, both.
UserLabels ==
    {TeamLabels,
     [k \in {"LabelAppInstance"} |-> <<"other">>],
     [k \in {"team", "LabelAppName"} |-> IF k = "team" THEN <<"db">> ELSE <<"postgres">>]}

\* The user labels the pod template, the templates of the two Services, or
\* all of them at once.
EditLabels ==
    /\ Event
    /\ ClusterExists
    /\ ~Live.deletionTimestamp
    /\ Live.generation < MaxGeneration
    /\ \E labels \in UserLabels,
          fields \in {{"podTemplateLabels"}, TemplateFields,
                      {"podTemplateLabels"} \cup TemplateFields} :
         objs' = [objs EXCEPT
                    ![ClusterId(Key)].spec =
                        [f \in DOMAIN @ |->
                            IF f \notin fields THEN @[f]
                            ELSE IF f = "podTemplateLabels" THEN labels
                            ELSE [ports |-> <<>>, labels |-> labels]],
                    ![ClusterId(Key)].generation = @ + 1]
    /\ UNCHANGED <<operator, faults, deleted>>

\* The labels of the users, with API calls that may fail.
NextLabels ==
    \/ Run
    \/ EditLabels
    \/ DeleteCluster

SpecLabels == InitFaulty /\ [][NextLabels]_vars

\* reconcileInitialize: the steps in their order, up to the first error; it
\* has updated when one of the steps has.
LegacyOrder ==
    <<"createSecretIfNotExist", "createOrUpdateConfigMap", "createOrUpdateHeadlessService",
      "createOrUpdateRBAC", "createOrUpdateStatefulSet", "createOrUpdateCronJob">>

RECURSIVE reconcileInitializeFrom(_, _, _, _, _)
reconcileInitializeFrom(st, c, seed, i, isUpdatedAtLeastOnce) ==
    IF st.err THEN [st EXCEPT !.ret = FALSE]
    ELSE IF i > Len(LegacyOrder) THEN [st EXCEPT !.ret = isUpdatedAtLeastOnce]
    ELSE LET Do(w) == reconcileInitializeFrom(w, c, seed, i + 1,
                                              isUpdatedAtLeastOnce \/ w.ret)
         IN CHOOSE r \in {Do(w) : w \in {LegacyStep(LegacyOrder[i],
                                            [st EXCEPT !.step = LegacyOrder[i]],
                                            c, seed)}} : TRUE

reconcileInitialize(st, c, seed) == reconcileInitializeFrom(st, c, seed, 1, FALSE)

\* The clusters that differ in what the steps before the CronJobs read.
LegacyInitializeClusters == {c \in LegacyClusters : c.spec.replicas = 1}

InitInitialize == LegacyStart(LegacyInitializeClusters, TRUE)

\* One call of reconcileInitialize, any one of its API calls failing or none.
InitializeCall ==
    /\ Len(steps) < MaxCalls
    /\ \E seed \in Seeds, f \in FailureAt(15) :
         \E st \in {reconcileInitialize(St0(objs, f, "reconcileInitialize"), cluster, seed)} :
         /\ objs' = st.objs
         /\ calls' = st.calls
         /\ steps' = Append(steps, [step |-> "reconcileInitialize",
                                    updated |-> st.ret, err |-> st.err])
         /\ result' = IF st.err THEN "error" ELSE "ok"
    /\ entryObjs' = objs
    /\ UNCHANGED <<cluster, pc, reconciler, mycnf, errStep, entry, quiet, wasQuiet, envOps,
                   operator, faults, dirty, running, deleted>>

NextInitialize == InitializeCall

SpecInitialize == InitInitialize /\ [][NextInitialize]_vars

InitLegacySecretRetry == LegacyStart(LegacySecretClusters, FALSE)

\* One call of createSecretIfNotExist, at any time: the first, or one after an
\* error; API calls fail while the budget of failures lasts.
LegacySecretRetry ==
    \E seed \in Seeds, f \in FailureWhileLeft(4) :
        \E st \in {createSecretIfNotExist(St0(objs, f, "createSecretIfNotExist"),
                                          cluster, seed)} :
        /\ objs' = st.objs
        /\ calls' = st.calls
        /\ entryObjs' = objs
        /\ steps' = <<[step |-> "createSecretIfNotExist",
                       updated |-> st.ret, err |-> st.err]>>
        /\ result' = IF st.err THEN "error" ELSE "ok"
        /\ envOps' = IF Failed(st) THEN envOps + 1 ELSE envOps
        /\ UNCHANGED <<cluster, pc, reconciler, mycnf, errStep, entry, quiet, wasQuiet,
                       operator, faults, dirty, running, deleted>>

NextLegacySecretRetry == LegacySecretRetry

\* The queue calls Reconcile again as long as it returns an error; the first
\* call follows the creation of the cluster.
RequeuedLegacySecretRetry == result # "ok" /\ LegacySecretRetry

SpecLegacySecretRetry ==
    InitLegacySecretRetry /\ [][NextLegacySecretRetry]_vars
        /\ WF_vars(RequeuedLegacySecretRetry)

\* The conditions of the legacy status.
Condition(type, status, reason, message) ==
    [type |-> type, status |-> status, reason |-> reason, message |-> message]

\* findCondition returns the address of its loop variable: a copy of the first
\* condition of the type, not its place in the list; <<>> stands for nil.
findCondition(conditions, conditionType) ==
    LET found == {i \in DOMAIN conditions : conditions[i].type = conditionType}
    IN IF found = {} THEN <<>>
       ELSE <<conditions[CHOOSE i \in found : \A j \in found : i <= j]>>

\* setCondition appends a condition of a new type; for a type that is in the
\* list it writes status, reason and message to what findCondition returned,
\* and the list keeps what it had.
setCondition(conditions, newCondition) ==
    LET current == findCondition(conditions, newCondition.type)
        written == [i \in DOMAIN current |->
                       [current[i] EXCEPT !.status = newCondition.status,
                                          !.reason = newCondition.reason,
                                          !.message = newCondition.message]]
    IN IF current = <<>> THEN Append(conditions, newCondition)
       ELSE conditions

\* A legacy cluster as stored: with our finalizer or not, deleted or not, and
\* the conditions of its status.
LegacyStored(c, finalizer) ==
    [namespace |-> c.namespace, name |-> c.name, uid |-> c.uid, spec |-> c.spec,
     finalizer |-> finalizer, deletionTimestamp |-> FALSE, conditions |-> <<>>]

\* The object goes away with its last finalizer.
LegacyGone(c) == c.deletionTimestamp /\ ~c.finalizer

\* A Patch or a Status().Update of the cluster.
LegacyClusterCall(st, verb) ==
    LET Do(s) ==
          IF s.err THEN s
          ELSE IF Failing(s) THEN Fail(Logged(s, verb, ClusterId(Key), "error"))
          ELSE Logged(s, verb, ClusterId(Key), "ok")
    IN CHOOSE r \in {Do(s) : s \in {st}} : TRUE

\* What a Reconcile leaves: the client, the stored cluster, and the conditions
\* it has given to setCondition.
LegacyOutcome(st, c, set) == [st |-> st, cluster |-> c, set |-> set]

\* setCondition and Status().Update after a failure: the error of the update
\* is logged only, the Reconcile returns the error it had.
LegacyFailed(st, c, set, newCondition) ==
    LET u == LegacyClusterCall([st EXCEPT !.err = FALSE], "status")
        c1 == [c EXCEPT !.conditions = setCondition(@, newCondition)]
    IN LegacyOutcome(Fail(u), IF u.err THEN c ELSE c1, Append(set, newCondition))

\* The clustering part of Reconcile: getMySQLClusterStatus fails or not, and
\* reconcileClustering has always updated.
LegacyClustering(st, c, set, clusteringFails) ==
    IF clusteringFails
    THEN LegacyFailed(Fail(st), c, set,
                      Condition("Ready", "False", "reconcileClusteringFailed",
                                "getMySQLClusterStatus"))
    ELSE LET ready == Condition("Ready", "True", "", "")
             u == LegacyClusterCall(st, "status")
         IN LegacyOutcome(u, IF u.err THEN c
                             ELSE [c EXCEPT !.conditions = setCondition(@, ready)],
                          Append(set, ready))

removePasswordSecretForController(st, c) ==
    LET g == ApiGet(st, MasterId(c))
    IN IF g.err \/ ~Exists(g, MasterId(c)) THEN g
       ELSE ApiDelete(g, MasterId(c), FALSE)

\* Reconcile of the legacy controller.
LegacyReconcileOf(st, c, seed, clusteringFails) ==
    LET g == ApiGet(st, ClusterId(Key)) IN
    IF g.err \/ LegacyGone(c) THEN LegacyOutcome(g, c, <<>>)
    ELSE IF c.deletionTimestamp
    THEN LET p == LegacyClusterCall(removePasswordSecretForController(g, c), "patch")
         IN LegacyOutcome(p, IF p.err THEN c ELSE [c EXCEPT !.finalizer = FALSE], <<>>)
    ELSE IF ~c.finalizer
    THEN LET p == LegacyClusterCall(g, "patch")
         IN LegacyOutcome(p, IF p.err THEN c ELSE [c EXCEPT !.finalizer = TRUE], <<>>)
    ELSE
    LET i == reconcileInitialize(g, c, seed) IN
    IF i.err
    THEN LegacyFailed(i, c, <<>>,
                      Condition("Initialized", "False", "reconcileInitializeFailed",
                                i.step))
    ELSE IF ~i.ret THEN LegacyClustering(i, c, <<>>, clusteringFails)
    ELSE LET initialized == Condition("Initialized", "True", "", "")
             u == LegacyClusterCall(i, "status")
         IN IF u.err THEN LegacyOutcome(u, c, <<initialized>>)
            ELSE LegacyClustering(u, [c EXCEPT !.conditions = setCondition(@, initialized)],
                                  <<initialized>>, clusteringFails)

InitConditions ==
    LegacyStart({LegacyStored(c, finalizer) :
                      c \in LegacySecretClusters, finalizer \in BOOLEAN}, FALSE)

\* One Reconcile of the legacy controller; `steps` keeps the conditions it has
\* given to setCondition.
LegacyReconcile ==
    \E seed \in Seeds, f \in FailureWhileLeft(18), clusteringFails \in BOOLEAN :
        \E out \in {LegacyReconcileOf(St0(objs, f, "Reconcile"), cluster, seed,
                                      clusteringFails)} :
        /\ objs' = out.st.objs
        /\ calls' = out.st.calls
        /\ cluster' = out.cluster
        /\ entry' = cluster
        /\ entryObjs' = objs
        /\ steps' = out.set
        /\ result' = IF out.st.err THEN "error" ELSE "ok"
        /\ envOps' = IF Failed(out.st) THEN envOps + 1 ELSE envOps
        /\ UNCHANGED <<pc, reconciler, mycnf, errStep, quiet, wasQuiet, operator, faults,
                       dirty, running, deleted>>

\* The user deletes the cluster.
DeleteLegacyCluster ==
    /\ ~cluster.deletionTimestamp
    /\ cluster' = [cluster EXCEPT !.deletionTimestamp = TRUE]
    /\ result' = "none"
    /\ UNCHANGED <<objs, pc, reconciler, mycnf, calls, steps, errStep, entry, quiet,
                   wasQuiet, envOps, operator, faults, entryObjs, dirty, running, deleted>>

NextConditions ==
    \/ LegacyReconcile
    \/ DeleteLegacyCluster

SpecConditions == InitConditions /\ [][NextConditions]_vars

\* The work queue and its workers.
NextQueue ==
    \/ Enqueue
    \/ Get
    \/ Done

InitQueue == Init /\ Live.spec = MinimalSpec

SpecQueue == InitQueue /\ [][NextQueue]_vars

-----------------------------------------------------------------------------
(* Idempotence *)

\* The order of the steps of reconcileV1.
StepOrder ==
    <<"Secret", "Certificate", "GRPCSecret", "MyCnf", "FluentBitConfigMap",
      "ServiceAccount", "Service", "StatefulSet", "PDB", "BackupJob", "RestoreJob">>

\* The requests of the run that write: attempted, whatever their outcome.
Writes == {i \in DOMAIN calls : calls[i].verb \in WriteVerbs}

\* A run of a cluster that is not being deleted has returned, and the run
\* before it had succeeded with nothing changed in between.
SecondRunReturned ==
    pc = "done" /\ wasQuiet /\ entry # NoCluster /\ ~entry.deletionTimestamp

\* C1, as stated: the run after a successful run of a cluster that is not
\* being deleted, with nothing changed in between, issues no create, update,
\* patch, delete or status write.
SecondRunIssuesNoWrite == SecondRunReturned => Writes = {}

\* C1, amended: the run after a successful run, with nothing changed in
\* between, changes no object.  It issues no create, update, patch or status
\* write; the only deletes it issues are of the PodDisruptionBudget of a
\* cluster of fewer than 3 replicas and of the slow-query ConfigMap of a
\* cluster without the sidecar, and they delete nothing.
SecondRunChangesNothing ==
    SecondRunReturned =>
        \A i \in Writes :
            /\ calls[i].verb = "delete"
            /\ calls[i].res # "ok"
            /\ \/ calls[i].id = PDBId(entry) /\ entry.spec.replicas < 3
               \/ /\ calls[i].id = SlowLogConfigMapId(entry)
                  /\ entry.spec.disableSlowQueryLogContainer

\* A second run that went through all the steps and sent a delete.
SecondRunDeletedNothing ==
    /\ SecondRunReturned
    /\ result = "ok"
    /\ steps = StepOrder
    /\ \E i \in Writes : calls[i].res = "notfound"

-----------------------------------------------------------------------------
(* The dispatcher *)

-----------------------------------------------------------------------------
(* The order of the steps *)

\* The steps from which the requests of the run come, in the order of the requests.
RECURSIVE CallSteps(_)
CallSteps(cs) ==
    IF cs = <<>> THEN <<>>
    ELSE IF Len(cs) > 1 /\ cs[1].step = cs[2].step THEN CallSteps(Tail(cs))
    ELSE <<cs[1].step>> \o CallSteps(Tail(cs))

\* s is t with elements left out.
RECURSIVE IsSubSeq(_, _)
IsSubSeq(s, t) ==
    IF s = <<>> THEN TRUE
    ELSE IF t = <<>> THEN FALSE
    ELSE IF s[1] = t[1] THEN IsSubSeq(Tail(s), Tail(t))
    ELSE IsSubSeq(s, Tail(t))

\* C3: the steps of a run are taken in the fixed order, each at most once and
\* none skipped, and so are their requests; when a step returns an error the
\* run returns that error and no later step makes a request.
StepsInOrderStopAtError ==
    /\ IsPrefix(steps, StepOrder)
    /\ IsSubSeq(CallSteps(calls), <<"Reconcile", "Finalize">> \o steps \o <<"Status">>)
    /\ errStep \in Range(StepOrder) =>
          /\ pc = "done"
          /\ result = "error"
          /\ Last(steps) = errStep
    /\ (pc = "done" /\ result = "ok" /\ entry # NoCluster /\ ~entry.deletionTimestamp)
          => steps = StepOrder

\* A run stopped by an error of a step in the middle, after requests of the
\* steps before it.
StepFailedMidway ==
    /\ pc = "done"
    /\ result = "error"
    /\ errStep = "StatefulSet"
    /\ Len(steps) = 8
    /\ \E i \in DOMAIN calls : calls[i].step = "Secret"

-----------------------------------------------------------------------------
(* The reconcile info *)

\* The status writes of the run: attempted, whatever their outcome.
StatusWrites == {i \in DOMAIN calls : calls[i].verb = "status"}

\* A run of a cluster that is not being deleted has returned.
RunReturned == pc = "done" /\ entry # NoCluster /\ ~entry.deletionTimestamp

GenerationMoved(c) == c.status.reconcileInfo.generation # c.generation

\* C4: after a successful run of a cluster that is not being deleted, the
\* recorded generation is the cluster's generation and the recorded version
\* is the reconciler's; a run sends a status write, and then only one, if and
\* only if all its steps succeeded and the generations differed on entry; a
\* run that returns an error leaves the status as it was.
StatusWrittenIffGenerationMoved ==
    /\ (RunReturned /\ result = "ok") =>
          /\ Live.status.reconcileInfo =
                [generation |-> Live.generation, reconcileVersion |-> reconciler]
          /\ cluster.status.reconcileInfo = Live.status.reconcileInfo
    /\ (pc = "done" /\ entry # NoCluster) =>
          (StatusWrites # {} <=>
              /\ ~entry.deletionTimestamp
              /\ steps = StepOrder
              /\ errStep \notin Range(StepOrder)
              /\ GenerationMoved(entry))
    /\ Cardinality(StatusWrites) <= 1
    /\ (pc = "done" /\ entry # NoCluster /\ result = "error") =>
          /\ Live.status = entry.status
          /\ \A i \in StatusWrites : calls[i].res # "ok"

\* A successful run that recorded a generation that had moved.
StatusWritten ==
    /\ RunReturned
    /\ result = "ok"
    /\ GenerationMoved(entry)
    /\ entry.generation = 2
    /\ \E i \in StatusWrites : calls[i].res = "ok"

-----------------------------------------------------------------------------
(* The finalizer *)

\* A run of a cluster that is being deleted and carries the finalizer has returned.
FinalizeReturned ==
    pc = "done" /\ entry # NoCluster /\ entry.deletionTimestamp /\ entry.finalizer

\* The calls of a finalization, in their order.
FinalizeCalls(c) ==
    << <<"Stop", ClusterId(c)>>, <<"delete", MasterId(c)>>,
       <<"delete", CertificateId(c)>>, <<"update", ClusterId(c)>> >>

\* C5: the run of a cluster that is being deleted and carries the finalizer
\* calls Stop, deletes the master secret, deletes the certificate and updates
\* the cluster, in this order and as far as it gets; the update is sent only
\* after both deletions returned success or NotFound; a run that returns an
\* error leaves the finalizer on the cluster.
FinalizeInOrder ==
    FinalizeReturned =>
        LET sent == [i \in DOMAIN calls |-> <<calls[i].verb, calls[i].id>>] IN
        /\ sent # <<>>
        /\ IsPrefix(sent, FinalizeCalls(entry))
        /\ \A i \in DOMAIN calls : i < Len(calls) => calls[i].res \in {"ok", "notfound"}
        /\ result = "ok" =>
              /\ sent = FinalizeCalls(entry)
              /\ Last(calls).res = "ok"
              /\ MasterId(entry) \notin DOMAIN objs
              /\ CertificateId(entry) \notin DOMAIN objs
              /\ ClusterExists => ~Live.finalizer
        /\ result = "error" =>
              /\ Last(calls).res = "error"
              /\ ClusterExists
              /\ Live.finalizer

\* A finalization that found the master secret gone and stopped at the
\* certificate, which it could not delete.
FinalizeFailedAtCertificate ==
    /\ FinalizeReturned
    /\ result = "error"
    /\ Len(calls) = 3
    /\ calls[2].res = "notfound"
    /\ calls[3].res = "error"
    /\ Live.finalizer

\* C6: the run of a cluster that is being deleted takes none of the steps and
\* sends no write for an object of the cluster's namespace but the update of
\* the cluster, so that the other objects of the namespace stay as they were;
\* when the cluster does not carry the finalizer the run makes no call at all
\* and returns success.
DeletingClusterLeftAlone ==
    (pc # "idle" /\ entry # NoCluster /\ entry.deletionTimestamp) =>
        /\ pc \in {"reconcileV1", "done"}
        /\ steps = <<>>
        /\ \A i \in Writes :
              NamespaceOf(calls[i].id) = entry.namespace =>
                  calls[i].id = ClusterId(entry) /\ calls[i].verb = "update"
        /\ \A id \in (DOMAIN objs \cup DOMAIN entryObjs) \ {ClusterId(entry)} :
              NamespaceOf(id) = entry.namespace =>
                  /\ id \in DOMAIN entryObjs
                  /\ id \in DOMAIN objs
                  /\ objs[id] = entryObjs[id]
        /\ ~entry.finalizer =>
              /\ calls = <<>>
              /\ objs = entryObjs
              /\ pc = "done" => result = "ok"

\* The run of a cluster that is being deleted and has lost the finalizer has
\* returned, with objects still there in the cluster's namespace.
DeletingWithoutFinalizer ==
    /\ pc = "done"
    /\ entry # NoCluster
    /\ entry.deletionTimestamp
    /\ ~entry.finalizer
    /\ \E id \in DOMAIN objs \ {ClusterId(entry)} : NamespaceOf(id) = entry.namespace

-----------------------------------------------------------------------------
(* The credentials *)

\* The run is that of a cluster that is not being deleted.
Running == pc # "idle" /\ entry # NoCluster /\ ~entry.deletionTimestamp

\* The run has drawn a new credential bundle.
BundleGenerated == \E i \in DOMAIN calls : calls[i].verb = "NewMySQLPassword"

\* C7: a run of a cluster that is not being deleted sends no write for a
\* master secret that existed when the run started, and leaves it as it was;
\* it draws a new credential bundle only when there was no master secret.
MasterSecretNeverRewritten ==
    Running =>
        /\ MasterId(entry) \in DOMAIN entryObjs =>
              /\ MasterId(entry) \in DOMAIN objs
              /\ objs[MasterId(entry)] = entryObjs[MasterId(entry)]
              /\ \A i \in Writes : calls[i].id # MasterId(entry)
        /\ BundleGenerated => MasterId(entry) \notin DOMAIN entryObjs

\* A successful run that found the master secret and wrote a derivative secret.
MasterKeptDerivativeWritten ==
    /\ RunReturned
    /\ result = "ok"
    /\ MasterId(entry) \in DOMAIN entryObjs
    /\ \E i \in Writes : calls[i].step = "Secret" /\ calls[i].res = "ok"

\* C8: after a successful run the user secret holds the ToSecret projection
\* and the my.cnf secret the ToMyCnfSecret projection of the bundle read back
\* from the master secret.
DerivativeSecretsProjectMaster ==
    (RunReturned /\ result = "ok") =>
        /\ MasterId(entry) \in DOMAIN objs
        /\ UserSecretId(entry) \in DOMAIN objs
        /\ MyCnfSecretId(entry) \in DOMAIN objs
        /\ LET parsed == NewMySQLPasswordFromSecret(objs[MasterId(entry)]) IN
           /\ parsed.ok
           /\ objs[UserSecretId(entry)].data = ToSecretData(parsed.passwd)
           /\ objs[MyCnfSecretId(entry)].data = ToMyCnfSecretData(parsed.passwd)

\* A successful run that found the master secret and a derivative secret
\* holding other data.
DerivativeSecretsRepaired ==
    /\ RunReturned
    /\ result = "ok"
    /\ MasterId(entry) \in DOMAIN entryObjs
    /\ \/ /\ UserSecretId(entry) \in DOMAIN entryObjs
          /\ entryObjs[UserSecretId(entry)].data # objs[UserSecretId(entry)].data
       \/ /\ MyCnfSecretId(entry) \in DOMAIN entryObjs
          /\ entryObjs[MyCnfSecretId(entry)].data # objs[MyCnfSecretId(entry)].data

-----------------------------------------------------------------------------
(* The my.cnf ConfigMaps *)

\* The ConfigMaps of the cluster's namespace whose names start with moco-<name>.
PrefixedConfigMaps(o, c) ==
    {id \in DOMAIN o :
        /\ KindOf(id) = "ConfigMap"
        /\ NamespaceOf(id) = c.namespace
        /\ IsPrefix(PrefixedName(c) \o <<".">>, NameOf(id))}

\* The my.cnf rendered from the cluster and the user's ConfigMap as they are.
CurrentMyCnf(c) ==
    Generate(IF c.spec.mysqlConfigMapName # <<>>
             THEN objs[ConfigMapId(c, c.spec.mysqlConfigMapName)].data
             ELSE EmptyMap,
             TotalMem(c))

\* C9: after a successful run there is one ConfigMap whose name starts with
\* moco-<name>. in the cluster's namespace: the one named after the digest of
\* the my.cnf rendered now, holding that my.cnf.
OneMyCnfConfigMap ==
    (RunReturned /\ result = "ok") =>
        LET current == ConfigMapId(entry, MyCnfName(entry, CurrentMyCnf(entry))) IN
        /\ PrefixedConfigMaps(objs, entry) = {current}
        /\ objs[current].data = [k \in {"my.cnf"} |-> CurrentMyCnf(entry)]
        /\ mycnf = NameOf(current)

\* A successful run that found a ConfigMap with the prefix that was not the
\* current one.
OldMyCnfConfigMapsDeleted ==
    /\ RunReturned
    /\ result = "ok"
    /\ PrefixedConfigMaps(entryObjs, entry) # {}
    /\ PrefixedConfigMaps(entryObjs, entry) \cap PrefixedConfigMaps(objs, entry) = {}

\* C10, as stated: in every state the my.cnf ConfigMap named in the pod
\* template of the live StatefulSet exists.
StatefulSetMyCnfExists ==
    StatefulSetId(Key) \in DOMAIN objs =>
        ConfigMapId(Key, objs[StatefulSetId(Key)].data.volumes["mysql-conf"])
            \in DOMAIN objs

-----------------------------------------------------------------------------
(* The name and the content of the my.cnf ConfigMap *)

\* C11: when reconcileV1MyCnf has succeeded, the name it returns is
\* moco-<name>. followed by the hex FNV-32a digest of the my.cnf text rendered
\* from the cluster, and the ConfigMap of that name holds that text, and only
\* it, under the key my.cnf.
MyCnfNamedByDigest ==
    pc = "FluentBitConfigMap" =>
        LET text == CurrentMyCnf(cluster)
            name == PrefixedName(cluster) \o <<".">> \o EncodeToString(fnv32a(text))
        IN /\ mycnf = name
           /\ ConfigMapId(cluster, name) \in DOMAIN objs
           /\ objs[ConfigMapId(cluster, name)].data = [k \in {"my.cnf"} |-> text]

\* reconcileV1MyCnf has succeeded in a run that found the ConfigMap of the
\* digest's name with another text in it.
MyCnfTextRestored ==
    /\ pc = "FluentBitConfigMap"
    /\ ConfigMapId(cluster, mycnf) \in DOMAIN entryObjs
    /\ entryObjs[ConfigMapId(cluster, mycnf)].data
           # [k \in {"my.cnf"} |-> CurrentMyCnf(cluster)]

-----------------------------------------------------------------------------
(* A pod template without a mysqld container *)

\* C12, as stated: a run of a cluster whose pod template has no container
\* named mysqld returns an error and has created or modified no object.
NoMysqldNoChildWritten ==
    (RunReturned /\ ~entry.spec.mysqld) =>
        /\ result = "error"
        /\ \A i \in Writes : calls[i].res # "ok"
        /\ objs = entryObjs

-----------------------------------------------------------------------------
(* Volume claim templates *)

\* The cluster of the run has a volume claim template named as a volume the
\* operator adds to the pod.
ReservedNameClaimed ==
    \E i \in DOMAIN entry.spec.volumeClaimTemplates :
        entry.spec.volumeClaimTemplates[i] \in OperatorVolumes(entry)

\* C13, as stated: a run of a cluster with a volume claim template named as an
\* operator's volume ends at the StatefulSet step with an error, without a
\* write of the StatefulSet.
ReservedVolumeNameRejected ==
    (RunReturned /\ "StatefulSet" \in Range(steps) /\ ReservedNameClaimed) =>
        /\ errStep = "StatefulSet"
        /\ \A i \in Writes : KindOf(calls[i].id) # "StatefulSet"

-----------------------------------------------------------------------------
(* The pod template across runs *)

\* The pod template of a StatefulSet.
PodTemplate(sts) ==
    [labels |-> sts.data.templateLabels,
     serviceAccountName |-> sts.data.serviceAccountName,
     volumes |-> sts.data.volumes,
     containers |-> sts.data.containers]

\* The image of the container of that name in a pod template, <<>> without one.
ImageOf(template, name) ==
    LET found == {i \in DOMAIN template.containers : template.containers[i].name = name}
    IN IF found = {} THEN <<>>
       ELSE template.containers[CHOOSE i \in found : TRUE].image

\* The pod template less the image of the agent's container.
LessAgentImage(template) ==
    [template EXCEPT !.containers =
        [i \in DOMAIN @ |-> IF @[i].name = "agent" THEN [@[i] EXCEPT !.image = <<>>]
                            ELSE @[i]]]

\* The StatefulSet step of the run has succeeded on a StatefulSet that existed
\* when the run started.
StatefulSetRebuilt ==
    /\ RunReturned
    /\ "StatefulSet" \in Range(steps)
    /\ errStep # "StatefulSet"
    /\ StatefulSetId(entry) \in DOMAIN entryObjs
    /\ StatefulSetId(entry) \in DOMAIN objs

\* The run is of a generation a run has succeeded on before, and builds the
\* StatefulSet on the my.cnf ConfigMap the live one names.
SameGenerationSameMyCnf ==
    /\ StatefulSetRebuilt
    /\ ~GenerationMoved(entry)
    /\ entryObjs[StatefulSetId(entry)].data.volumes["mysql-conf"] = mycnf

-----------------------------------------------------------------------------
(* The role label *)

\* C15, as stated: the labels of the pod template of the StatefulSet never
\* have the role label's key, and of the objects the reconciler writes only
\* the selectors of the primary and the replica Service have it.
NoRoleLabelOnPodTemplate ==
    /\ StatefulSetId(Key) \in DOMAIN objs =>
          "LabelMocoRole" \notin DOMAIN objs[StatefulSetId(Key)].data.templateLabels
    /\ \A id \in DOMAIN objs \ {ClusterId(Key)} :
          /\ "LabelMocoRole" \notin DOMAIN objs[id].labels
          /\ ("selector" \in DOMAIN objs[id].data
                 /\ "LabelMocoRole" \in DOMAIN objs[id].data.selector) =>
                id \in {ServiceId(Key, PrimaryServiceName(Key)),
                        ServiceId(Key, ReplicaServiceName(Key))}

-----------------------------------------------------------------------------
(* Concurrency *)

\* C16: at most MaxConcurrentReconciles (8) calls of Reconcile run at a time,
\* and at most one of them for any request key.
ReconcilesSerialisedPerKey ==
    /\ Reconciling <= 8
    /\ Cardinality({k \in Requests : running[k] > 0}) <= 8
    /\ \A k \in Requests : running[k] <= 1

\* Eight calls are running, and a ninth key waits, and a key that is being
\* reconciled has been added again.
WorkersBusyKeyWaiting ==
    /\ Reconciling = 8
    /\ \E k \in dirty : running[k] = 0
    /\ \E k \in dirty : running[k] = 1

-----------------------------------------------------------------------------
(* The fetch of the cluster *)

\* The calls of ClusterManager.Stop and ClusterManager.Update of the run.
StopCalls == {i \in DOMAIN calls : calls[i].verb = "Stop"}
UpdateCalls == {i \in DOMAIN calls : calls[i].verb = "Update"}

\* The fetch of the cluster has failed with an error other than NotFound.
FetchFailed ==
    \E i \in DOMAIN calls :
        calls[i].verb = "get" /\ calls[i].res = "error" /\ calls[i].id = ClusterId(Key)

\* C17: a run that finds no cluster under the key calls Stop, writes nothing
\* and returns without an error; a run whose fetch fails otherwise returns
\* the error, writes nothing and does not call Stop.
AbsentClusterStopped ==
    pc = "done" =>
        /\ (ClusterId(Key) \notin DOMAIN entryObjs /\ ~FetchFailed) =>
              /\ result = "ok"
              /\ Len(calls) = 1 /\ StopCalls = {1}
              /\ calls[1].id = ClusterId(Key)
              /\ steps = <<>>
              /\ objs = entryObjs
        /\ FetchFailed =>
              /\ result = "error"
              /\ errStep = "Reconcile"
              /\ Len(calls) = 1
              /\ steps = <<>>
              /\ objs = entryObjs

\* A run has found no cluster under the key and has returned.
ClusterWasAbsent ==
    /\ pc = "done"
    /\ ClusterId(Key) \notin DOMAIN entryObjs
    /\ ~FetchFailed
    /\ StopCalls # {}

-----------------------------------------------------------------------------
(* The calls of the clustering manager *)

\* C18: a run calls ClusterManager.Update if and only if it is a run of a
\* cluster that is not being deleted and returns without an error, and then
\* once and as its last call; a run calls ClusterManager.Stop only when it
\* found no cluster or a cluster that is being deleted.
ClusterManagerCalls ==
    pc = "done" =>
        /\ IF RunReturned /\ result = "ok"
           THEN UpdateCalls = {Len(calls)} /\ steps = StepOrder
           ELSE UpdateCalls = {}
        /\ RunReturned => StopCalls = {}
        /\ StopCalls # {} =>
              \/ ClusterId(Key) \notin DOMAIN entryObjs
              \/ entry # NoCluster /\ entry.deletionTimestamp /\ entry.finalizer

\* A run has written the status and then called Update, as its last call.
UpdateCalledAfterStatusWrite ==
    /\ RunReturned
    /\ result = "ok"
    /\ Len(calls) >= 2
    /\ calls[Len(calls)].verb = "Update"
    /\ calls[Len(calls) - 1].verb = "status"

-----------------------------------------------------------------------------
(* The repair of a deleted child *)

\* A run of a cluster that is not being deleted has returned; it started from
\* the objects a successful run had left, less one child owned by the cluster
\* that somebody deleted, with the operator configured as it was.
ChildDeletedRunReturned ==
    /\ RunReturned
    /\ deleted # NoDeletion
    /\ deleted.before[deleted.id].owner = "cluster"
    /\ entryObjs = MapDel(deleted.before, deleted.id)
    /\ operator = deleted.operator

WithSidecarImage(sts, image) ==
    [sts EXCEPT !.data.containers =
        [i \in DOMAIN @ |-> IF @[i].name = "slow-log" THEN [@[i] EXCEPT !.image = image]
                            ELSE @[i]]]

-----------------------------------------------------------------------------
(* The PodDisruptionBudget *)

\* C20: after a successful run the PodDisruptionBudget moco-<name> exists if
\* and only if the cluster has three replicas or more; it then allows half
\* the replicas, rounded down, to be unavailable (one of three) and selects
\* the pods by the cluster's labels.  A delete of the PodDisruptionBudget
\* that finds none does not fail the step.
PDBIffThreeReplicas ==
    RunReturned =>
        /\ result = "ok" =>
              /\ PDBId(entry) \in DOMAIN objs <=> entry.spec.replicas >= 3
              /\ PDBId(entry) \in DOMAIN objs =>
                    /\ NameOf(PDBId(entry)) = <<"moco-">> \o entry.name
                    /\ objs[PDBId(entry)].data.maxUnavailable * 2 <= entry.spec.replicas
                    /\ objs[PDBId(entry)].data.maxUnavailable * 2 + 2 > entry.spec.replicas
                    /\ entry.spec.replicas = 3 =>
                          objs[PDBId(entry)].data.maxUnavailable = 1
                    /\ objs[PDBId(entry)].data.selector = labelSet(entry, FALSE)
        /\ \A i \in DOMAIN calls :
              (calls[i].step = "PDB" /\ calls[i].res = "notfound") => errStep # "PDB"

\* A successful run of a cluster scaled to fewer than three replicas has
\* removed the PodDisruptionBudget it found.
PDBRemovedOnScaleDown ==
    /\ RunReturned
    /\ result = "ok"
    /\ entry.spec.replicas = 2
    /\ PDBId(entry) \in DOMAIN entryObjs
    /\ PDBId(entry) \notin DOMAIN objs

\* A run has sent a delete for a PodDisruptionBudget that was not there.
AbsentPDBDeleted ==
    /\ RunReturned
    /\ result = "ok"
    /\ \E i \in DOMAIN calls : calls[i].step = "PDB" /\ calls[i].res = "notfound"


\* The calls of one step of the run.
StepCalls(step) == {i \in DOMAIN calls : calls[i].step = step}

\* The backup step has run with spec.backupPolicyName unset.
BackupStepUnset ==
    /\ pc = "done"
    /\ "BackupJob" \in Range(steps)
    /\ cluster.spec.backupPolicyName = <<>>

\* C21: with spec.backupPolicyName unset, a backup step that returns no error
\* leaves no backup CronJob, Role or RoleBinding of the cluster, whichever of
\* them existed before; it deletes exactly those that existed, and it returns
\* an error only when one of its API calls has failed.
BackupObjectsRemoved ==
    BackupStepUnset =>
        /\ errStep # "BackupJob" =>
              /\ BackupObjects(cluster) \cap DOMAIN objs = {}
              /\ {calls[i].id : i \in StepCalls("BackupJob")}
                    = BackupObjects(cluster) \cap DOMAIN entryObjs
              /\ \A i \in StepCalls("BackupJob") :
                    calls[i].verb = "delete" /\ calls[i].res = "ok"
        /\ errStep = "BackupJob" =>
              \E i \in StepCalls("BackupJob") : calls[i].res = "error"

\* The step has removed a Role that was there without its CronJob and
\* RoleBinding, and has returned no error.
LoneBackupRoleRemoved ==
    /\ BackupStepUnset
    /\ errStep # "BackupJob"
    /\ BackupObjects(cluster) \cap DOMAIN entryObjs = {BackupRoleId(cluster)}
    /\ BackupRoleId(cluster) \notin DOMAIN objs

\* The run has reached the my.cnf step while the ConfigMap named by
\* spec.mysqlConfigMapName did not exist.
UserConfigMapMissing ==
    /\ pc = "done"
    /\ "MyCnf" \in Range(steps)
    /\ cluster.spec.mysqlConfigMapName # <<>>
    /\ ConfigMapId(cluster, cluster.spec.mysqlConfigMapName) \notin DOMAIN entryObjs

\* The run has reached the backup step while the BackupPolicy named by
\* spec.backupPolicyName did not exist.
BackupPolicyMissing ==
    /\ pc = "done"
    /\ "BackupJob" \in Range(steps)
    /\ cluster.spec.backupPolicyName # <<>>
    /\ BackupPolicyId(cluster) \notin DOMAIN entryObjs

\* The objects of a set of kinds.
OfKinds(os, kinds) == [id \in {i \in DOMAIN os : KindOf(i) \in kinds} |-> os[id]]

\* C22: a run whose spec.mysqlConfigMapName or spec.backupPolicyName names an
\* object that does not exist returns an error from the step that reads it, and
\* that step writes nothing: the ConfigMaps, respectively the CronJobs, Roles
\* and RoleBindings, are the ones there were before the run.
MissingReferenceFails ==
    /\ UserConfigMapMissing =>
          /\ result = "error" /\ errStep = "MyCnf"
          /\ StepCalls("MyCnf") \cap Writes = {}
          /\ OfKinds(objs, {"ConfigMap"}) = OfKinds(entryObjs, {"ConfigMap"})
    /\ BackupPolicyMissing =>
          /\ result = "error" /\ errStep = "BackupJob"
          /\ StepCalls("BackupJob") \cap Writes = {}
          /\ OfKinds(objs, {"CronJob", "Role", "RoleBinding"})
                = OfKinds(entryObjs, {"CronJob", "Role", "RoleBinding"})

\* The backup step has met a missing policy while backup objects of the
\* cluster existed.
MissingPolicyWithBackupObjects ==
    /\ BackupPolicyMissing
    /\ BackupObjects(cluster) \cap DOMAIN entryObjs # {}

\* The my.cnf step has met a missing user ConfigMap while a generated
\* ConfigMap of the cluster existed.
MissingConfigMapWithMyCnf ==
    /\ UserConfigMapMissing
    /\ PrefixedConfigMaps(entryObjs, cluster) # {}

\* The calls of the run that write one of the given objects.
WritesOf(ids) == {i \in Writes : calls[i].id \in ids}

\* The given objects as they are in a set of objects.
Among(os, ids) == [id \in ids \cap DOMAIN os |-> os[id]]

\* C23: a run that fetches a cluster with status.restoredTime set creates,
\* updates and deletes neither the restore Job nor the restore Role nor the
\* restore RoleBinding, whichever of them exist.
RestoredClusterLeftAlone ==
    (pc = "done" /\ entry # NoCluster /\ entry.status.restoredTime) =>
        /\ WritesOf(RestoreObjects(entry)) = {}
        /\ Among(objs, RestoreObjects(entry)) = Among(entryObjs, RestoreObjects(entry))

\* A run has gone through the restore step of a restored cluster whose restore
\* Job was gone while its restore Role was there.
RestoredClusterWithoutJob ==
    /\ pc = "done" /\ result = "ok"
    /\ entry # NoCluster /\ entry.status.restoredTime /\ entry.spec.restore
    /\ "RestoreJob" \in Range(steps)
    /\ RestoreObjects(entry) \cap DOMAIN entryObjs = {RestoreRoleId(entry)}

\* The restore step has run with spec.restore set and status.restoredTime nil.
RestoreStepPending ==
    /\ pc = "done"
    /\ "RestoreJob" \in Range(steps)
    /\ cluster.spec.restore
    /\ ~cluster.status.restoredTime

\* C24: with spec.restore set and status.restoredTime nil, the restore step
\* writes the Job only by creating it when none existed, an existing Job stays
\* as it was, and a step that returns no error leaves the Job, the restore Role
\* and the restore RoleBinding in place, the two with the Job as controller
\* owner.
RestoreJobCreatedOnce ==
    RestoreStepPending =>
        /\ \A i \in WritesOf({RestoreJobId(cluster)}) :
              /\ calls[i].verb = "create"
              /\ RestoreJobId(cluster) \notin DOMAIN entryObjs
        /\ RestoreJobId(cluster) \in DOMAIN entryObjs =>
              /\ RestoreJobId(cluster) \in DOMAIN objs
              /\ objs[RestoreJobId(cluster)] = entryObjs[RestoreJobId(cluster)]
        /\ errStep # "RestoreJob" =>
              /\ RestoreObjects(cluster) \subseteq DOMAIN objs
              /\ objs[RestoreRoleId(cluster)].owner = "job"
              /\ objs[RestoreRoleBindingId(cluster)].owner = "job"
              /\ objs[RestoreRoleId(cluster)].labels = labelSetForJob(cluster)

\* The step has found a failed Job without its Role and has created the Role.
FailedJobKeptRoleCreated ==
    /\ RestoreStepPending
    /\ errStep # "RestoreJob"
    /\ RestoreJobId(cluster) \in DOMAIN entryObjs
    /\ entryObjs[RestoreJobId(cluster)].data.conditions = <<"Failed">>
    /\ RestoreRoleId(cluster) \notin DOMAIN entryObjs
    /\ RestoreRoleId(cluster) \in DOMAIN objs

\* The Services the run has written.
ServicesWritten ==
    {s \in TemplatedServices(Key) :
        \E i \in DOMAIN calls :
            calls[i].id = s[1] /\ calls[i].verb = "patch" /\ calls[i].res = "ok"}

\* The ports of a name.
Named(ports, name) == {i \in DOMAIN ports : ports[i].name = name}

\* C25: a primary or replica Service written by a run has exactly two ports,
\* mysql on 3306 followed by mysqlx on 33060, both TCP with the target port
\* given by name, whatever ports the ServiceTemplate declares.
ServiceHasTwoPorts ==
    pc = "done" =>
        \A s \in ServicesWritten :
            LET ports == objs[s[1]].data.ports IN
            /\ Len(ports) = 2
            /\ [ports[1] EXCEPT !.nodePort = 0] = servicePorts(0, 0)[1]
            /\ [ports[2] EXCEPT !.nodePort = 0] = servicePorts(0, 0)[2]

\* C26: a run that writes a primary or replica Service whose mysql and mysqlx
\* ports had nodePorts assigned writes the same nodePorts.
NodePortsKept ==
    pc = "done" =>
        \A s \in ServicesWritten, name \in {"mysql", "mysqlx"} :
            (/\ s[1] \in DOMAIN entryObjs
             /\ \A i \in Named(entryObjs[s[1]].data.ports, name) :
                   entryObjs[s[1]].data.ports[i].nodePort > 0)
            => {objs[s[1]].data.ports[i].nodePort : i \in Named(objs[s[1]].data.ports, name)}
                 = {entryObjs[s[1]].data.ports[i].nodePort :
                       i \in Named(entryObjs[s[1]].data.ports, name)}

\* The places of a text where a byte string occurs.
Occurrences(text, sub) ==
    {i \in 1..(Len(text) - Len(sub) + 1) : SubSeq(text, i, i + Len(sub) - 1) = sub}

Contains(text, sub) == Occurrences(text, sub) # {}

\* A directive of the my.cnf: a line `key = value`.
Directive(key, value) == KeyBytes[key] \o EqBytes \o value \o NewlineBytes

\* The my.cnf step of the run has written or found its ConfigMap.
MyCnfReconciled ==
    /\ pc = "done"
    /\ "MyCnf" \in Range(steps)
    /\ errStep # "MyCnf"

\* The my.cnf of the ConfigMap the step has returned.
MyCnfText == objs[ConfigMapId(cluster, mycnf)].data["my.cnf"]

\* The data of the user's ConfigMap of the run, empty when none is named.
UserConfOf(c) ==
    IF c.spec.mysqlConfigMapName = <<>> THEN EmptyMap
    ELSE entryObjs[ConfigMapId(c, c.spec.mysqlConfigMapName)].data

\* requests.memory when set, otherwise limits.memory, otherwise 0.
MemoryBudget(c) ==
    IF c.spec.requestsMemory # 0 THEN c.spec.requestsMemory
    ELSE IF c.spec.limitsMemory # 0 THEN c.spec.limitsMemory
    ELSE 0

\* "179M"
Str179M == <<49, 55, 57, 77>>

UserKeysReplaceAllButConstants ==
    MyCnfReconciled =>
        \A key \in DOMAIN UserConfOf(cluster) :
            LET value == IF key \in DOMAIN constMycnf THEN constMycnf[key]
                         ELSE UserConfOf(cluster)[key]
            IN /\ Contains(MyCnfText, Directive(key, value))
               /\ Cardinality(Occurrences(MyCnfText, KeyBytes[key] \o EqBytes)) = 1

\* The user has set max_connections and datadir: the first is taken, the
\* second is not.
UserMaxConnectionsTaken ==
    /\ MyCnfReconciled
    /\ UserConfOf(cluster) = [max_connections |-> Str5000, datadir |-> TmpDir]
    /\ Contains(MyCnfText, Directive("max_connections", Str5000))
    /\ Contains(MyCnfText, Directive("datadir", VarLibMysql))
    /\ ~Contains(MyCnfText, Directive("datadir", TmpDir))

\* The user's innodb_buffer_pool_size has replaced the one derived from 256 MiB.
UserBufferPoolTaken ==
    /\ MyCnfReconciled
    /\ MemoryBudget(cluster) = 256 * MiB
    /\ Contains(MyCnfText, Directive("innodb_buffer_pool_size", Str64M))
    /\ ~Contains(MyCnfText, Directive("innodb_buffer_pool_size", Str179M))

\* The Certificate of the state, as the pair of its namespace and name.
TheCertificate ==
    LET id == CHOOSE i \in DOMAIN objs : KindOf(i) = "Certificate"
    IN [namespace |-> NamespaceOf(id), name |-> NameOf(id)]

\* The name of the Certificate of a cluster: moco-agent-<namespace>.<name>.
CertificateOf(namespace, name) == MocoAgentPrefix \o namespace \o <<".">> \o name

\* The event of the Certificate has been mapped.
CertificateMapped == envOps > 0 /\ \E i \in DOMAIN objs : KindOf(i) = "Certificate"

\* C29: the certificate watch enqueues a request only for an object of the
\* operator's namespace named moco-agent-<x>.<y>, and then the one key
\* (x, y) with no dot in x; so the Certificate of a cluster whose namespace has
\* no dot is mapped to that cluster's key, dots in the cluster's name or not,
\* and a Certificate of another namespace enqueues nothing.
CertificateMapsToItsCluster ==
    CertificateMapped =>
        /\ \A k \in dirty :
              /\ TheCertificate.namespace = SystemNamespace
              /\ TheCertificate.name = CertificateOf(k.namespace, k.name)
              /\ Dots(k.namespace) = {}
              /\ dirty = {k}
        /\ \A namespace \in Strings(NameChars \ {"."}, MaxNameLen),
              name \in Strings(NameChars, MaxNameLen) :
              (/\ TheCertificate.namespace = SystemNamespace
               /\ TheCertificate.name = CertificateOf(namespace, name))
              => dirty = {[namespace |-> namespace, name |-> name]}
        /\ TheCertificate.namespace # SystemNamespace => dirty = {}

\* The Certificate of the cluster a.a in the namespace a has been mapped.
DottedClusterNameMapped ==
    /\ CertificateMapped
    /\ TheCertificate.namespace = SystemNamespace
    /\ TheCertificate.name = CertificateOf(<<"a">>, <<"a", ".", "a">>)
    /\ dirty = {[namespace |-> <<"a">>, name |-> <<"a", ".", "a">>]}

\* A well-named Certificate of another namespace has been mapped to nothing.
ForeignCertificateIgnored ==
    /\ CertificateMapped
    /\ TheCertificate.namespace # SystemNamespace
    /\ TheCertificate.name = CertificateOf(<<"a">>, <<"a">>)
    /\ dirty = {}

\* The last call of a legacy step, and the one before it.
LastCall == steps[Len(steps)]
CallBefore == steps[Len(steps) - 1]

\* The last call was the first of its step, and it has returned no error.
FirstCallReturned ==
    /\ steps # <<>>
    /\ ~LastCall.err
    /\ \A j \in 1..(Len(steps) - 1) : steps[j].step # LastCall.step

\* The last call has repeated the call before it, which had returned no error.
RepeatedCallReturned ==
    /\ Len(steps) >= 2
    /\ CallBefore.step = LastCall.step
    /\ ~CallBefore.err

\* createOrUpdateRBAC has nothing to create: the pod template names a service
\* account of the user.
ServiceAccountGiven ==
    LastCall.step = "createOrUpdateRBAC" /\ cluster.spec.serviceAccountName # <<>>

\* C30, as stated: the first call of every legacy step on a fresh cluster
\* reports updated = true, and the call repeated at once reports updated =
\* false and writes nothing.
FirstCallUpdates ==
    /\ FirstCallReturned => LastCall.updated
    /\ RepeatedCallReturned =>
          ~LastCall.err /\ ~LastCall.updated /\ Writes = {} /\ objs = entryObjs

\* C30, amended: the same, except that the first call of createOrUpdateRBAC
\* reports updated = false and writes nothing when the pod template names a
\* service account.
FirstCallUpdatesUnlessNothingToDo ==
    /\ (FirstCallReturned /\ ~ServiceAccountGiven) => LastCall.updated /\ Writes # {}
    /\ (FirstCallReturned /\ ServiceAccountGiven) =>
          ~LastCall.updated /\ calls = <<>> /\ objs = entryObjs
    /\ RepeatedCallReturned =>
          ~LastCall.err /\ ~LastCall.updated /\ Writes = {} /\ objs = entryObjs

\* createOrUpdateStatefulSet has been called twice in a row: the first call
\* has created the StatefulSet, the second has found nothing to do.
StatefulSetCalledTwice ==
    /\ Len(steps) = 2
    /\ steps[1] = [step |-> "createOrUpdateStatefulSet", updated |-> TRUE, err |-> FALSE]
    /\ steps[2] = [step |-> "createOrUpdateStatefulSet", updated |-> FALSE, err |-> FALSE]
    /\ Id("StatefulSet", cluster.namespace, uniqueName(cluster)) \in DOMAIN objs

-----------------------------------------------------------------------------
(* The legacy secrets *)

\* createSecretIfNotExist has just returned.
SecretCallReturned ==
    steps # <<>> /\ result # "none" /\ LastCall.step = "createSecretIfNotExist"

\* The controller's Secret was there when the call began.
ControllerSecretWasThere == MasterId(cluster) \in DOMAIN entryObjs

\* C31: createSecretIfNotExist writes only when the controller's Secret is
\* absent, and then it creates the init Secret and the controller's Secret
\* when it returns no error.  When the controller's Secret exists the call
\* changes nothing, whether the init Secret exists or not, and unless its
\* Get has failed it returns updated = false and no error.
SecretsCreatedOnlyWithoutControllerSecret ==
    SecretCallReturned =>
        /\ ControllerSecretWasThere =>
              /\ Writes = {}
              /\ objs = entryObjs
              /\ (calls = <<>>) => (~LastCall.err /\ ~LastCall.updated)
        /\ (~ControllerSecretWasThere /\ ~LastCall.err) =>
              /\ LastCall.updated
              /\ {calls[i].id : i \in Writes} = {InitSecretId(cluster), MasterId(cluster)}
              /\ \A i \in Writes : calls[i].verb = "create" /\ calls[i].res = "ok"
              /\ {InitSecretId(cluster), MasterId(cluster)} \subseteq DOMAIN objs

\* The init Secret was deleted and createSecretIfNotExist has left it so.
DeletedInitSecretNotRecreated ==
    /\ SecretCallReturned
    /\ ControllerSecretWasThere
    /\ InitSecretId(cluster) \notin DOMAIN objs
    /\ LastCall = [step |-> "createSecretIfNotExist", updated |-> FALSE, err |-> FALSE]
    /\ Len(steps) = 2
    /\ steps[1].updated

-----------------------------------------------------------------------------
(* What the pods depend on *)

\* What the pods of the StatefulSet mount or refer to by name.
PodDependencies(c) ==
    {UserSecretId(c), MyCnfSecretId(c), ServiceAccountId(c),
     ServiceId(c, HeadlessServiceName(c))}

\* C32: reconciles alone never leave the StatefulSet of the cluster without
\* the user Secret, the my.cnf Secret, the ServiceAccount and the headless
\* Service: all four exist whenever the StatefulSet exists, so they were
\* written before the StatefulSet was first applied.
StatefulSetHasItsDependencies ==
    StatefulSetId(Key) \in DOMAIN objs => PodDependencies(Key) \subseteq DOMAIN objs

\* A run has failed in the Service step, after the ServiceAccount was written
\* and before the StatefulSet step, with no StatefulSet yet.
FailedBetweenAccountAndStatefulSet ==
    /\ pc = "done"
    /\ result = "error"
    /\ errStep = "Service"
    /\ ServiceAccountId(Key) \in DOMAIN objs
    /\ StatefulSetId(Key) \notin DOMAIN objs

\* A run has succeeded and has applied the StatefulSet for the first time.
StatefulSetFirstApplied ==
    /\ pc = "done"
    /\ result = "ok"
    /\ StatefulSetId(Key) \notin DOMAIN entryObjs
    /\ StatefulSetId(Key) \in DOMAIN objs
    /\ PodDependencies(Key) \subseteq DOMAIN objs

-----------------------------------------------------------------------------
(* The my.cnf ConfigMaps of the neighbours *)

\* The objects the last step has deleted.
DeletedByStep == DOMAIN entryObjs \ DOMAIN objs

\* A ConfigMap the operator has written for the cluster c.
MyCnfOf(o, id, c) ==
    /\ o[id].owner = "cluster"
    /\ "LabelAppInstance" \in DOMAIN o[id].labels
    /\ o[id].labels["LabelAppInstance"] = c.name

\* C33: reconcileV1MyCnf of a cluster deletes only my.cnf ConfigMaps of that
\* cluster: none of another cluster of the namespace and none of the user.
MyCnfCollectionKeepsOthers ==
    (cluster # NoCluster /\ steps = <<"MyCnf">>) =>
        \A id \in DeletedByStep : MyCnfOf(entryObjs, id, cluster)

-----------------------------------------------------------------------------
(* The credentials step retried *)

\* The master secret holds the bundle drawn with the seed.
MasterOf(seed) ==
    /\ MasterId(Key) \in DOMAIN objs
    /\ objs[MasterId(Key)].data = ToSecretData(NewMySQLPassword(seed))

\* reconcileV1Secret has failed with the master secret of the seed in place.
SecretFailedAfterMaster(seed) == result = "error" /\ MasterOf(seed)

\* reconcileV1Secret has succeeded, and both derivative secrets project the
\* master secret of the seed.
SecretsSettled(seed) ==
    /\ result = "ok"
    /\ MasterOf(seed)
    /\ UserSecretId(Key) \in DOMAIN objs
    /\ MyCnfSecretId(Key) \in DOMAIN objs
    /\ objs[UserSecretId(Key)].data = ToSecretData(NewMySQLPassword(seed))
    /\ objs[MyCnfSecretId(Key)].data = ToMyCnfSecretData(NewMySQLPassword(seed))

\* A Secret of the name of a derivative secret that another controller owns.
ForeignDerivative ==
    \E id \in {UserSecretId(Key), MyCnfSecretId(Key)} \cap DOMAIN objs :
        objs[id].owner \notin {"none", "cluster"}

\* A step that finds the master secret draws no bundle.
NoSecondBundle ==
    (steps = <<"Secret">> /\ MasterId(Key) \in DOMAIN entryObjs) => ~BundleGenerated

\* C34, as stated: when reconcileV1Secret has failed after creating the
\* master secret, the retries lead to a success with both derivative secrets
\* projecting that master secret, and no second bundle is drawn.
SecretRetrySettles ==
    /\ []NoSecondBundle
    /\ \A seed \in Seeds : SecretFailedAfterMaster(seed) ~> SecretsSettled(seed)

\* C34, amended: the same, unless a Secret of the name of a derivative secret
\* is owned by another controller; then every retry fails.
SecretRetrySettlesUnlessForeign ==
    /\ []NoSecondBundle
    /\ \A seed \in Seeds :
          (SecretFailedAfterMaster(seed) /\ ~ForeignDerivative) ~> SecretsSettled(seed)
    /\ [](ForeignDerivative => result # "ok")

\* A retry has succeeded: it has found the master secret of a run that had
\* failed, and a Secret without controller under the name of the user secret,
\* which it has taken over.
RetryTookOverSecret ==
    /\ \E seed \in Seeds : SecretsSettled(seed)
    /\ MasterId(Key) \in DOMAIN entryObjs
    /\ UserSecretId(Key) \in DOMAIN entryObjs
    /\ entryObjs[UserSecretId(Key)].owner = "none"
    /\ objs[UserSecretId(Key)].owner = "cluster"

-----------------------------------------------------------------------------
(* The finalizer, in the end *)

\* The cluster is being deleted and carries the finalizer.
FinalizerPending == ClusterExists /\ Live.deletionTimestamp /\ Live.finalizer

\* The cluster is gone, or waits for the garbage collector without the
\* finalizer of the operator.
FinalizerRemoved == ~ClusterExists \/ (Live.deletionTimestamp /\ ~Live.finalizer)

\* What the finalizer removes is not there.
MasterAndCertificateGone ==
    MasterId(Key) \notin DOMAIN objs /\ CertificateId(Key) \notin DOMAIN objs

\* C35: a cluster that is being deleted and carries the finalizer loses the
\* finalizer in the end, and the step that removes it leaves neither the
\* master secret nor the agent certificate of the cluster behind.
FinalizerRemovedInTheEnd ==
    /\ FinalizerPending ~> FinalizerRemoved
    /\ [][(FinalizerPending /\ FinalizerRemoved') => MasterAndCertificateGone']_vars

\* A finalization that had deleted the master secret and had failed at the
\* certificate has been retried, and the retry has removed the finalizer.
InterruptedFinalizeCompleted ==
    /\ FinalizeReturned
    /\ result = "ok"
    /\ MasterId(Key) \notin DOMAIN entryObjs
    /\ CertificateId(Key) \in DOMAIN entryObjs
    /\ FinalizerRemoved
    /\ MasterAndCertificateGone

-----------------------------------------------------------------------------
(* The labels of the operator *)

\* The map has every key of the label set of the cluster, with its value.
CarriesLabelSet(m) ==
    \A k \in DOMAIN labelSet(Key, FALSE) :
        k \in DOMAIN m /\ m[k] = labelSet(Key, FALSE)[k]

\* The selector selects an object with these labels.
Selects(selector, m) ==
    \A k \in DOMAIN selector : k \in DOMAIN m /\ m[k] = selector[k]

\* C36: the labels of the pod template of the StatefulSet carry the label set
\* of the cluster with the operator's values, whatever the user's pod template
\* says, so that the selector of the StatefulSet and that of the headless
\* Service select the pods; the labels of the primary and the replica Service
\* carry the label set as well, whatever their templates say.
OperatorLabelsWin ==
    /\ StatefulSetId(Key) \in DOMAIN objs =>
          LET sts == objs[StatefulSetId(Key)].data IN
          /\ CarriesLabelSet(sts.templateLabels)
          /\ Selects(sts.selector, sts.templateLabels)
          /\ Selects(objs[ServiceId(Key, HeadlessServiceName(Key))].data.selector,
                     sts.templateLabels)
    /\ \A s \in TemplatedServices(Key) :
          s[1] \in DOMAIN objs => CarriesLabelSet(objs[s[1]].labels)

\* The StatefulSet and the primary Service were written for a cluster whose
\* pod template and primary ServiceTemplate both give the instance label
\* another value.
UserLabelsOverridden ==
    /\ pc = "done"
    /\ result = "ok"
    /\ entry # NoCluster
    /\ "LabelAppInstance" \in DOMAIN entry.spec.podTemplateLabels
    /\ entry.spec.podTemplateLabels["LabelAppInstance"] = <<"other">>
    /\ entry.spec.primaryServiceTemplate # <<>>
    /\ "LabelAppInstance" \in DOMAIN entry.spec.primaryServiceTemplate.labels
    /\ StatefulSetId(Key) \in DOMAIN objs
    /\ ServiceId(Key, PrimaryServiceName(Key)) \in DOMAIN objs
    /\ objs[StatefulSetId(Key)].data.templateLabels["LabelAppInstance"] = Key.name
    /\ objs[ServiceId(Key, PrimaryServiceName(Key))].labels["LabelAppInstance"] = Key.name

-----------------------------------------------------------------------------
(* The service account of the legacy pods *)

LegacyStatefulSetId(c) == Id("StatefulSet", c.namespace, uniqueName(c))

\* The ServiceAccount the pod template of the stored StatefulSet names.
PodServiceAccountId(c) ==
    Id("ServiceAccount", c.namespace,
       objs[LegacyStatefulSetId(c)].data.template.serviceAccountName)

InitializeSucceeded ==
    /\ steps # <<>>
    /\ steps[Len(steps)].step = "reconcileInitialize"
    /\ result = "ok"

\* C37: after reconcileInitialize has succeeded, the ServiceAccount that the pod
\* template of the StatefulSet names exists in the namespace of the cluster,
\* also when the pod template of the cluster names a service account itself.
PodServiceAccountExists ==
    InitializeSucceeded =>
        /\ LegacyStatefulSetId(cluster) \in DOMAIN objs
        /\ PodServiceAccountId(cluster) \in DOMAIN objs

-----------------------------------------------------------------------------
(* The retries of the legacy secrets *)

\* The call has created the init Secret and has failed to create the
\* controller's Secret.
InitSecretAlone ==
    /\ result = "error"
    /\ calls # <<>>
    /\ calls[Len(calls)].verb = "create"
    /\ calls[Len(calls)].id = MasterId(cluster)
    /\ InitSecretId(cluster) \in DOMAIN objs
    /\ MasterId(cluster) \notin DOMAIN objs

ControllerPasswordKeys == {"OPERATOR_PASSWORD", "REPLICATION_PASSWORD", "CLONE_DONOR_PASSWORD"}

\* A call has succeeded and the controller's Secret holds the passwords of the
\* init Secret.
LegacySecretsSettled ==
    /\ result = "ok"
    /\ InitSecretId(cluster) \in DOMAIN objs
    /\ MasterId(cluster) \in DOMAIN objs
    /\ \A k \in ControllerPasswordKeys :
          objs[MasterId(cluster)].data[k] = objs[InitSecretId(cluster)].data[k]

\* C38: when createSecretIfNotExist has failed between the creation of the init
\* Secret and that of the controller's Secret, the retried calls succeed in the
\* end, with a controller's Secret that holds the operator, replication and
\* donor passwords of the init Secret.
LegacySecretRetrySettles == InitSecretAlone ~> LegacySecretsSettled

-----------------------------------------------------------------------------
(* The conditions of the legacy status *)

\* The conditions of a type in the stored status.
StoredConditions(type) ==
    {i \in DOMAIN cluster.conditions : cluster.conditions[i].type = type}

\* The last condition of each type that the Reconcile has given to setCondition.
LatestSet ==
    {steps[k] : k \in {k \in DOMAIN steps :
                          \A l \in DOMAIN steps : l > k => steps[l].type # steps[k].type}}

\* C39: the stored list holds one condition per type, and after a Reconcile
\* whose status updates have succeeded the condition of each type it has set
\* carries the status, reason and message of its latest setCondition: after
\* Initialized=False of a failed initialize, a successful one leaves
\* Initialized with status True.
ConditionsKeepLatestCall ==
    /\ \A type \in {"Initialized", "Ready"} : Cardinality(StoredConditions(type)) <= 1
    /\ result = "ok" =>
          \A set \in LatestSet :
              /\ Cardinality(StoredConditions(set.type)) = 1
              /\ \A i \in StoredConditions(set.type) : cluster.conditions[i] = set
=============================================================================
